---------------------------- MODULE Spec2Model ----------------------------
(***************************************************************************)
(* A model of create-playwright: the package-manager command layer, the    *)
(* template renderer (executeTemplate) and the generator run (argument     *)
(* parsing, questions, command execution, file creation, patching).        *)
(*                                                                         *)
(* Strings are sequences of one-character strings, so that includes,       *)
(* startsWith, slice, trim, match and replace are computed as JavaScript   *)
(* computes them.  A comment next to each literal gives its text.          *)
(***************************************************************************)
EXTENDS Integers, Sequences, FiniteSets, TLC

VARIABLES
  \* ---- package-manager layer (SpecPM)
  env,        \* the probes of detection: npm_config_user_agent and the files of rootDir
  pm,         \* the PackageManager that determinePackageManager returned, or NoPM
  depName,    \* the argument of installDevDependency
  out,        \* the command string each method returned so far (None: not called)
  \* ---- template renderer (SpecTpl)
  tpl,        \* the arguments of executeTemplate: input lines, args, sections
  scan,       \* the locals of executeTemplate's loop: i, mode, indent, result
  rerender,   \* executeTemplate applied to the returned text, once done
  \* ---- generator run (Spec)
  run         \* the process: argv, options, disk, commands, files, pc, exit code

pmVars  == <<env, pm, depName, out>>
tplVars == <<tpl, scan, rerender>>
runVars == <<run>>
vars    == <<env, pm, depName, out, tpl, scan, rerender, run>>

None == "none"
NoPM == [cli |-> "none", via |-> "none", workspace |-> FALSE, classic |-> FALSE]

-----------------------------------------------------------------------------
(* String primitives (ECMAScript String.prototype).                         *)

\* s has p at position i (1-based)
HasAt(s, p, i) ==
  /\ i >= 1
  /\ i + Len(p) - 1 <= Len(s)
  /\ \A k \in 1..Len(p) : s[i + k - 1] = p[k]

\* String.prototype.includes
Includes(s, p) == \E i \in 1..(Len(s) + 1) : HasAt(s, p, i)

\* String.prototype.startsWith
StartsWith(s, p) == HasAt(s, p, 1)

\* String.prototype.indexOf, 1-based; 0 when p does not occur
IndexOf(s, p) ==
  IF Includes(s, p)
  THEN CHOOSE i \in 1..(Len(s) + 1) :
         HasAt(s, p, i) /\ \A j \in 1..(i - 1) : ~HasAt(s, p, j)
  ELSE 0

\* String.prototype.slice(from) with a 0-based from in 0..
SliceFrom(s, from) == IF from >= Len(s) THEN <<>> ELSE SubSeq(s, from + 1, Len(s))

\* String.prototype.slice(0, to) with a 0-based to in 0..
SliceTo(s, to) == IF to >= Len(s) THEN s ELSE SubSeq(s, 1, to)

IsDigit(c) == c \in {"0", "1", "2", "3", "4", "5", "6", "7", "8", "9"}

\* \s of a regular expression, String.prototype.trim: the model's strings hold
\* the space and the tab as white space
IsSpace(c) == c \in {" ", "\t"}

\* the position after the longest run of digits that starts at i (\d+, greedy)
RECURSIVE DigitsEnd(_, _)
DigitsEnd(s, i) == IF i <= Len(s) /\ IsDigit(s[i]) THEN DigitsEnd(s, i + 1) ELSE i

\* the number of leading white-space characters of s
RECURSIVE LeadingSpaces(_)
LeadingSpaces(s) ==
  IF s # <<>> /\ IsSpace(Head(s)) THEN 1 + LeadingSpaces(Tail(s)) ELSE 0

\* the number of white-space characters of s that end right before position i
RECURSIVE SpacesBefore(_, _)
SpacesBefore(s, i) ==
  IF i > 1 /\ IsSpace(s[i - 1]) THEN 1 + SpacesBefore(s, i - 1) ELSE 0

\* String.prototype.trim
Trim(s) ==
  LET a == LeadingSpaces(s)
      b == SpacesBefore(s, Len(s) + 1)
  IN  IF a >= Len(s) THEN <<>> ELSE SubSeq(s, a + 1, Len(s) - b)

-----------------------------------------------------------------------------
(* Package managers: packageManager.ts (classes NPM, Yarn, PNPM, Bun) and   *)
(* the determinePackageManager of utils.ts.                                 *)

\* npm_config_user_agent values; <<>> is the unset (or empty) variable
UA_unset     == <<>>
UA_npm       == <<"n","p","m","/","1","0",".","2",".","4"," ","n","o","d","e","/","v","2","0">> (* 'npm/10.2.4 node/v20' *)
UA_yarn1     == <<"y","a","r","n","/","1",".","2","2",".","2","1"," ","n","p","m","/","?"," ","n","o","d","e","/","v","2","0">> (* 'yarn/1.22.21 npm/? node/v20' *)
UA_yarn4     == <<"y","a","r","n","/","4",".","0",".","2"," ","n","p","m","/","?"," ","n","o","d","e","/","v","2","0">> (* 'yarn/4.0.2 npm/? node/v20' *)
UA_yarn10    == <<"y","a","r","n","/","1","0",".","0",".","0"," ","n","p","m","/","?"," ","n","o","d","e","/","v","2","0">> (* 'yarn/10.0.0 npm/? node/v20' *)
UA_yarnNoVer == <<"y","a","r","n"," ","n","p","m","/","?"," ","n","o","d","e","/","v","2","0">> (* 'yarn npm/? node/v20' *)
UA_pnpm      == <<"p","n","p","m","/","8",".","1","5",".","1"," ","n","p","m","/","?"," ","n","o","d","e","/","v","2","0">> (* 'pnpm/8.15.1 npm/? node/v20' *)
UA_bun       == <<"b","u","n","/","1",".","0",".","2","5"," ","n","p","m","/","?"," ","n","o","d","e","/","v","2","0">> (* 'bun/1.0.25 npm/? node/v20' *)
UA_pnpmYarn  == <<"p","n","p","m","/","8",".","1","5",".","1"," ","y","a","r","n","/","1",".","2","2",".","2","1">> (* 'pnpm/8.15.1 yarn/1.22.21' *)
UA_bunPnpm   == <<"b","u","n","/","1",".","0",".","2","5"," ","p","n","p","m","/","8",".","1","5",".","1">> (* 'bun/1.0.25 pnpm/8.15.1' *)

UserAgents ==
  { UA_unset, UA_npm, UA_yarn1, UA_yarn4, UA_yarn10, UA_yarnNoVer, UA_pnpm,
    UA_bun, UA_pnpmYarn, UA_bunPnpm }

\* What rootDir/package.json holds: no file, text that JSON.parse rejects, or an
\* object whose workspaces member is absent, [] or ["packages/*"]
PackageJsonStates == {"missing", "invalid", "noWorkspaces", "emptyWorkspaces", "workspaces"}

\* The names installDevDependency is called with
DepNames == { <<"@","p","l","a","y","w","r","i","g","h","t","/","t","e","s","t">> (* '@playwright/test' *), <<"@","t","y","p","e","s","/","n","o","d","e","@","n","e","x","t">> (* '@types/node@next' *) }

Envs ==
  [ userAgent : UserAgents,
    yarnLock : BOOLEAN,
    pnpmLock : BOOLEAN,
    packageJson : PackageJsonStates,
    pnpmWorkspaceYaml : BOOLEAN ]

\* userAgent.match(/yarn\/(\d+\.\d+\.\d+)/): whether the expression matches at i
YarnVersionAt(ua, i) ==
  LET a == i + 5
      b == DigitsEnd(ua, a)
      c == DigitsEnd(ua, b + 1)
      d == DigitsEnd(ua, c + 1)
  IN  /\ HasAt(ua, <<"y","a","r","n","/">> (* 'yarn/' *), i)
      /\ b > a /\ HasAt(ua, <<".">>, b)
      /\ c > b + 1 /\ HasAt(ua, <<".">>, c)
      /\ d > c + 1

\* userAgent.match(/yarn\/(\d+\.\d+\.\d+)/)?.[1]: group 1 of the leftmost match,
\* or <<>> (undefined) when there is none
YarnVersion(ua) ==
  IF \E i \in 1..Len(ua) : YarnVersionAt(ua, i)
  THEN LET i == CHOOSE k \in 1..Len(ua) :
                  YarnVersionAt(ua, k) /\ \A j \in 1..(k - 1) : ~YarnVersionAt(ua, j)
           b == DigitsEnd(ua, i + 5)
           c == DigitsEnd(ua, b + 1)
           d == DigitsEnd(ua, c + 1)
       IN  SubSeq(ua, i + 5, d - 1)
  ELSE <<>>

\* Mutant: a package.json that cannot be read counts as a workspace
Yarn_isWorkspace_UnreadableIsWorkspace(e) ==
  e.packageJson \in {"missing", "invalid", "emptyWorkspaces", "workspaces"}

\* Yarn.isWorkspace: JSON.parse(readFileSync(package.json)) inside try/catch, then
\* !!packageJSON.workspaces; an array is truthy in JavaScript, the empty one too
Yarn_isWorkspace(e) ==
  CASE e.packageJson = "missing"         -> FALSE
    [] e.packageJson = "invalid"         -> FALSE
    [] e.packageJson = "noWorkspaces"    -> FALSE
    [] e.packageJson = "emptyWorkspaces" -> TRUE
    [] e.packageJson = "workspaces"      -> TRUE

\* new Yarn(rootDir, version)
Yarn_new(e, version) ==
  [ cli |-> "yarn", via |-> "packageManager",
    workspace |-> Yarn_isWorkspace(e),
    classic |-> IF version # <<>>
                THEN StartsWith(version, <<"0">>) \/ StartsWith(version, <<"1">>)
                ELSE FALSE ]

\* new PNPM(rootDir)
PNPM_new(e) ==
  [ cli |-> "pnpm", via |-> "packageManager",
    workspace |-> e.pnpmWorkspaceYaml, classic |-> FALSE ]

\* new NPM()
NPM_new == [ cli |-> "npm", via |-> "packageManager", workspace |-> FALSE, classic |-> FALSE ]

\* determinePackageManager of packageManager.ts (classes; the yarn version is read)
determinePackageManager(e) ==
  IF e.userAgent # <<>>
  THEN IF Includes(e.userAgent, <<"y","a","r","n">> (* 'yarn' *))
       THEN Yarn_new(e, YarnVersion(e.userAgent))
       ELSE IF Includes(e.userAgent, <<"p","n","p","m">> (* 'pnpm' *))
            THEN PNPM_new(e)
            ELSE NPM_new
  ELSE NPM_new

\* Mutant: the substring 'bun' is not looked for
determinePackageManager_bun_NoBun(e) ==
  IF e.userAgent # <<>>
  THEN IF Includes(e.userAgent, <<"y","a","r","n">> (* 'yarn' *))
       THEN [ cli |-> "yarn", via |-> "bun", workspace |-> FALSE, classic |-> FALSE ]
       ELSE IF Includes(e.userAgent, <<"p","n","p","m">> (* 'pnpm' *))
            THEN [ cli |-> "pnpm", via |-> "bun",
                   workspace |-> e.pnpmWorkspaceYaml, classic |-> FALSE ]
            ELSE [ cli |-> "npm", via |-> "bun", workspace |-> FALSE, classic |-> FALSE ]
  ELSE [ cli |-> "npm", via |-> "bun", workspace |-> FALSE, classic |-> FALSE ]

\* determinePackageManager of the packageManager.ts that has the class Bun:
\* new Yarn() takes no argument there, new PNPM(existsSync(pnpm-workspace.yaml))
determinePackageManager_bun(e) ==
  IF e.userAgent # <<>>
  THEN IF Includes(e.userAgent, <<"y","a","r","n">> (* 'yarn' *))
       THEN [ cli |-> "yarn", via |-> "bun", workspace |-> FALSE, classic |-> FALSE ]
       ELSE IF Includes(e.userAgent, <<"p","n","p","m">> (* 'pnpm' *))
            THEN [ cli |-> "pnpm", via |-> "bun",
                   workspace |-> e.pnpmWorkspaceYaml, classic |-> FALSE ]
            ELSE IF Includes(e.userAgent, <<"b","u","n">> (* 'bun' *))
                 THEN [ cli |-> "bun", via |-> "bun", workspace |-> FALSE, classic |-> FALSE ]
                 ELSE [ cli |-> "npm", via |-> "bun", workspace |-> FALSE, classic |-> FALSE ]
  ELSE [ cli |-> "npm", via |-> "bun", workspace |-> FALSE, classic |-> FALSE ]

\* Mutant: the user agent is consulted before the lock files
determinePackageManager_utils_AgentFirst(e) ==
  LET name ==
        IF e.userAgent # <<>> /\ Includes(e.userAgent, <<"y","a","r","n">> (* 'yarn' *)) THEN "yarn"
        ELSE IF e.userAgent # <<>> /\ Includes(e.userAgent, <<"p","n","p","m">> (* 'pnpm' *)) THEN "pnpm"
        ELSE IF e.yarnLock THEN "yarn"
        ELSE IF e.pnpmLock THEN "pnpm"
        ELSE "npm"
  IN  [ cli |-> name, via |-> "utils", workspace |-> FALSE, classic |-> FALSE ]

\* determinePackageManager of utils.ts: returns 'yarn' | 'pnpm' | 'npm', lock files first
determinePackageManager_utils(e) ==
  LET name ==
        IF e.yarnLock THEN "yarn"
        ELSE IF e.pnpmLock THEN "pnpm"
        ELSE IF e.userAgent # <<>>
             THEN IF Includes(e.userAgent, <<"y","a","r","n">> (* 'yarn' *)) THEN "yarn"
                  ELSE IF Includes(e.userAgent, <<"p","n","p","m">> (* 'pnpm' *)) THEN "pnpm"
                  ELSE "npm"
             ELSE "npm"
  IN  [ cli |-> name, via |-> "utils", workspace |-> FALSE, classic |-> FALSE ]

\* ci()
PackageManager_ci(p) ==
  CASE p.cli = "npm"  -> <<"n","p","m"," ","c","i">> (* 'npm ci' *)
    [] p.cli = "yarn" -> <<"n","p","m"," ","i","n","s","t","a","l","l"," ","-","g"," ","y","a","r","n"," ","&","&"," ","y","a","r","n">> (* 'npm install -g yarn && yarn' *)
    [] p.cli = "pnpm" -> <<"n","p","m"," ","i","n","s","t","a","l","l"," ","-","g"," ","p","n","p","m"," ","&","&"," ","p","n","p","m"," ","i","n","s","t","a","l","l">> (* 'npm install -g pnpm && pnpm install' *)
    [] p.cli = "bun"  -> <<"b","u","n"," ","i","n","s","t","a","l","l">> (* 'bun install' *)

\* Mutant: NPM.i() returns what NPM.ci() returns
PackageManager_i_NpmCi(p) == PackageManager_ci(p)

\* i(): NPM returns 'npm i'; Yarn and PNPM return this.ci()
PackageManager_i(p) ==
  CASE p.cli = "npm"  -> <<"n","p","m"," ","i">> (* 'npm i' *)
    [] p.cli = "yarn" -> PackageManager_ci(p)
    [] p.cli = "pnpm" -> PackageManager_ci(p)

\* Mutant: Yarn adds -W in every workspace, whatever the yarn version
PackageManager_installDevDependency_AnyYarn(p, name) ==
  CASE p.cli = "npm"  -> <<"n","p","m"," ","i","n","s","t","a","l","l"," ","-","-","s","a","v","e","-","d","e","v"," ">> (* 'npm install --save-dev ' *) \o name
    [] p.cli = "yarn" ->
         <<"y","a","r","n"," ","a","d","d"," ","-","-","d","e","v"," ">> (* 'yarn add --dev ' *) \o (IF p.workspace THEN <<"-","W"," ">> (* '-W ' *) ELSE <<>>) \o name
    [] p.cli = "pnpm" ->
         <<"p","n","p","m"," ","a","d","d"," ","-","-","s","a","v","e","-","d","e","v"," ">> (* 'pnpm add --save-dev ' *) \o (IF p.workspace THEN <<"-","w"," ">> (* '-w ' *) ELSE <<>>) \o name
    [] p.cli = "bun"  -> <<"b","u","n"," ","i","n","s","t","a","l","l"," ","-","-","d","e","v"," ">> (* 'bun install --dev ' *) \o name

\* installDevDependency(name)
PackageManager_installDevDependency(p, name) ==
  CASE p.cli = "npm"  -> <<"n","p","m"," ","i","n","s","t","a","l","l"," ","-","-","s","a","v","e","-","d","e","v"," ">> (* 'npm install --save-dev ' *) \o name
    [] p.cli = "yarn" ->
         <<"y","a","r","n"," ","a","d","d"," ","-","-","d","e","v"," ">> (* 'yarn add --dev ' *) \o (IF p.workspace /\ p.classic THEN <<"-","W"," ">> (* '-W ' *) ELSE <<>>) \o name
    [] p.cli = "pnpm" ->
         <<"p","n","p","m"," ","a","d","d"," ","-","-","s","a","v","e","-","d","e","v"," ">> (* 'pnpm add --save-dev ' *) \o (IF p.workspace THEN <<"-","w"," ">> (* '-w ' *) ELSE <<>>) \o name
    [] p.cli = "bun"  -> <<"b","u","n"," ","i","n","s","t","a","l","l"," ","-","-","d","e","v"," ">> (* 'bun install --dev ' *) \o name

PMOps == {"ci", "i", "installDevDependency"}

\* the state before determinePackageManager is called; the renderer and the
\* generator run are not part of this specification
PMInit ==
  /\ env \in Envs
  /\ pm = NoPM
  /\ depName \in DepNames
  /\ out = [o \in PMOps |-> None]
  /\ tpl = None /\ scan = None /\ rerender = None
  /\ run = None

\* const pm = determinePackageManager(rootDir)   (packageManager.ts)
Determine ==
  /\ pm = NoPM
  /\ pm' = determinePackageManager(env)
  /\ UNCHANGED <<env, depName, out, tplVars, runVars>>

\* the same call against the packageManager.ts that knows bun
DetermineBun ==
  /\ pm = NoPM
  /\ pm' = determinePackageManager_bun(env)
  /\ UNCHANGED <<env, depName, out, tplVars, runVars>>

\* the same call against utils.ts (the one generator.ts imports)
DetermineUtils ==
  /\ pm = NoPM
  /\ pm' = determinePackageManager_utils(env)
  /\ UNCHANGED <<env, depName, out, tplVars, runVars>>

\* pm.ci()
CallCi ==
  /\ pm.via \in {"packageManager", "bun"}
  /\ out.ci = None
  /\ out' = [out EXCEPT !.ci = PackageManager_ci(pm)]
  /\ UNCHANGED <<env, pm, depName, tplVars, runVars>>

\* pm.i(); the interface of the version with Bun has no i()
CallI ==
  /\ pm.via = "packageManager"
  /\ out.i = None
  /\ out' = [out EXCEPT !.i = PackageManager_i(pm)]
  /\ UNCHANGED <<env, pm, depName, tplVars, runVars>>

\* pm.installDevDependency(depName)
CallInstallDevDependency ==
  /\ pm.via \in {"packageManager", "bun"}
  /\ out.installDevDependency = None
  /\ out' = [out EXCEPT !.installDevDependency = PackageManager_installDevDependency(pm, depName)]
  /\ UNCHANGED <<env, pm, depName, tplVars, runVars>>

-----------------------------------------------------------------------------
(* The template renderer: executeTemplate of utils.ts.                      *)

NL == "\n"

\* String.prototype.split('\n')
RECURSIVE Split(_)
Split(s) ==
  LET p == IndexOf(s, <<NL>>)
  IN  IF p = 0 THEN <<s>> ELSE <<SubSeq(s, 1, p - 1)>> \o Split(SliceFrom(s, p))

\* Array.prototype.join('\n')
RECURSIVE Join(_)
Join(lines) ==
  IF lines = <<>> THEN <<>>
  ELSE IF Len(lines) = 1 THEN lines[1]
  ELSE lines[1] \o <<NL>> \o Join(Tail(lines))

\* input.replace(new RegExp(pat, 'g'), val) for a pattern without special
\* characters: every occurrence, left to right, the replacement not rescanned
RECURSIVE ReplaceAll(_, _, _)
ReplaceAll(s, pat, val) ==
  IF s = <<>> THEN <<>>
  ELSE IF HasAt(s, pat, 1) THEN val \o ReplaceAll(SliceFrom(s, Len(pat)), pat, val)
  ELSE <<Head(s)>> \o ReplaceAll(Tail(s), pat, val)

\* Mutant: only the first occurrence of each key is replaced
RECURSIVE Substitute_FirstOnly(_, _)
Substitute_FirstOnly(input, args) ==
  IF args = <<>> THEN input
  ELSE LET pat == <<"{","{">> (* '{{' *) \o args[1].key \o <<"}","}">> (* '}}' *)
           p == IndexOf(input, pat)
           replaced == IF p = 0 THEN input
                       ELSE SubSeq(input, 1, p - 1) \o args[1].value
                              \o SliceFrom(input, p - 1 + Len(pat))
       IN  Substitute_FirstOnly(replaced, Tail(args))

\* for (const key in args) input = input.replace(new RegExp('{{' + key + '}}', 'g'), args[key])
\* args is the sequence of the object's entries in its enumeration order
RECURSIVE Substitute(_, _)
Substitute(input, args) ==
  IF args = <<>> THEN input
  ELSE Substitute(ReplaceAll(input, <<"{","{">> (* '{{' *) \o args[1].key \o <<"}","}">> (* '}}' *), args[1].value), Tail(args))

BeginMarker == <<"/","/","-","-","b","e","g","i","n","-">> (* '//--begin-' *)
EndMarker == <<"/","/","-","-","e","n","d","-">> (* '//--end-' *)

\* line.match(/(\s*)\/\/--begin-(.*)/): the expression is not anchored, so the
\* leftmost match starts at the white space before the first '//--begin-'
IsBeginLine(line) == Includes(line, BeginMarker)

\* match[1]: the white space right before the first '//--begin-'
BeginIndent(line) ==
  LET p == IndexOf(line, BeginMarker)
      n == SpacesBefore(line, p)
  IN  SubSeq(line, p - n, p - 1)

\* match[2]: the rest of the line after the first '//--begin-'
BeginName(line) == SliceFrom(line, IndexOf(line, BeginMarker) - 1 + Len(BeginMarker))

\* line.trim().startsWith('//--end-')
IsEndLine(line) == StartsWith(Trim(line), EndMarker)

\* Mutant: a section without an entry is shown
SectionMode_DefaultShow(sections, name) ==
  IF name \in DOMAIN sections THEN sections[name] ELSE "show"

\* sections.get(match[2]) || 'comment'
SectionMode(sections, name) ==
  IF name \in DOMAIN sections THEN sections[name] ELSE "comment"

\* Mutant: in comment mode the prefix is added at the indent and at the start
CommentLine_Twice(line, indent) ==
  <<"/","/"," ">> (* '// ' *) \o SliceTo(line, Len(indent)) \o <<"/","/"," ">> (* '// ' *) \o SliceFrom(line, Len(indent))

\* line.slice(0, indent.length) + '// ' + line.slice(indent.length)
CommentLine(line, indent) ==
  SliceTo(line, Len(indent)) \o <<"/","/"," ">> (* '// ' *) \o SliceFrom(line, Len(indent))

\* Mutant: the line of an end marker is not dropped
ScanLine_EndKept(st, line, sections) ==
  IF IsBeginLine(line)
  THEN [st EXCEPT !.mode = SectionMode(sections, BeginName(line)),
                  !.indent = BeginIndent(line)]
  ELSE IF IsEndLine(line)
  THEN [st EXCEPT !.mode = "show", !.result = Append(@, line)]
  ELSE IF st.mode = "show"
  THEN [st EXCEPT !.result = Append(@, line)]
  ELSE IF st.mode = "comment"
  THEN [st EXCEPT !.result = Append(@, CommentLine(line, st.indent))]
  ELSE st

\* Mutant: a begin marker inside a section that is not shown is ignored
ScanLine_NoOverwrite(st, line, sections) ==
  IF IsBeginLine(line)
  THEN IF st.mode = "show"
       THEN [st EXCEPT !.mode = SectionMode(sections, BeginName(line)),
                       !.indent = BeginIndent(line)]
       ELSE st
  ELSE IF IsEndLine(line)
  THEN [st EXCEPT !.mode = "show"]
  ELSE IF st.mode = "show"
  THEN [st EXCEPT !.result = Append(@, line)]
  ELSE IF st.mode = "comment"
  THEN [st EXCEPT !.result = Append(@, CommentLine(line, st.indent))]
  ELSE st

\* one iteration of 'for (const line of input.split("\n"))' on the locals
\* mode, indent and result
ScanLine(st, line, sections) ==
  IF IsBeginLine(line)
  THEN [st EXCEPT !.mode = SectionMode(sections, BeginName(line)),
                  !.indent = BeginIndent(line)]
  ELSE IF IsEndLine(line)
  THEN [st EXCEPT !.mode = "show"]
  ELSE IF st.mode = "show"
  THEN [st EXCEPT !.result = Append(@, line)]
  ELSE IF st.mode = "comment"
  THEN [st EXCEPT !.result = Append(@, CommentLine(line, st.indent))]
  ELSE st

\* let mode = 'show'; let indent = ''; const result = []
ScanStart == [mode |-> "show", indent |-> <<>>, result |-> <<>>]

RECURSIVE ScanAll(_, _, _)
ScanAll(st, lines, sections) ==
  IF lines = <<>> THEN st
  ELSE ScanAll(ScanLine(st, Head(lines), sections), Tail(lines), sections)

\* executeTemplate(input, args, sections)
executeTemplate(input, args, sections) ==
  Join(ScanAll(ScanStart, Split(Substitute(input, args)), sections).result)

\* ---- the inputs of the renderer

\* The lines templates are made of
TemplateLines ==
  { <<>>,
    <<"a">>,
    <<" "," "," ","/","/"," ","c","{","{","k","}","}">> (* '   // c{{k}}' *),
    <<"/","/","-","-","b","e","g","i","n","-","f","f">> (* '//--begin-ff' *),
    <<" "," ","/","/","-","-","b","e","g","i","n","-","w","k">> (* '  //--begin-wk' *),
    <<" "," ","/","/","-","-","e","n","d","-","w","k">> (* '  //--end-wk' *),
    <<"d"," ","/","/","-","-","b","e","g","i","n","-","f","f">> (* 'd //--begin-ff' *) }

\* the longest template, in lines
MaxLines == 3

Templates == UNION { [1..n -> TemplateLines] : n \in 1..MaxLines }

SectionNames == { <<"f","f">> (* 'ff' *), <<"w","k">> (* 'wk' *) }
Modes == {"show", "hide", "comment"}

\* Map<string, 'show' | 'hide' | 'comment'>: an entry for every section (ff
\* shown or hidden, wk in any mode), for one section, or for none
SectionTables ==
  { f \in [SectionNames -> Modes] : f[<<"f","f">> (* 'ff' *)] # "comment" }
    \cup [{ <<"f","f">> (* 'ff' *) } -> {"show"}] \cup [{} -> Modes]

\* Record<string, string> as the sequence of its entries: no entry, one entry,
\* and two entries of which the first value holds the placeholder of the second
ArgTables ==
  { <<>>,
    <<[key |-> <<"k">>, value |-> <<"e","2","e">> (* 'e2e' *)]>>,
    <<[key |-> <<"k">>, value |-> <<"{","{","m","}","}">> (* '{{m}}' *)], [key |-> <<"m">>, value |-> <<"x">>]>> }

\* executeTemplate is entered with its three arguments
TplInit ==
  /\ tpl \in [input : {Join(t) : t \in Templates}, args : ArgTables, sections : SectionTables]
  /\ scan = [pc |-> "replace", lines |-> <<>>, i |-> 0, mode |-> "show",
             indent |-> <<>>, result |-> <<>>, output |-> <<>>]
  /\ rerender = [done |-> FALSE, text |-> <<>>]
  /\ env = None /\ pm = NoPM /\ depName = None /\ out = None
  /\ run = None

\* the for-in loop of replacements, then input.split('\n')
TplReplace ==
  /\ scan.pc = "replace"
  /\ scan' = [scan EXCEPT !.pc = "loop", !.i = 1,
                          !.lines = Split(Substitute(tpl.input, tpl.args))]
  /\ UNCHANGED <<tpl, rerender, pmVars, runVars>>

\* one iteration of the loop over the lines
TplLine ==
  /\ scan.pc = "loop"
  /\ scan.i <= Len(scan.lines)
  /\ LET st == ScanLine([mode |-> scan.mode, indent |-> scan.indent, result |-> scan.result],
                        scan.lines[scan.i], tpl.sections)
     IN  scan' = [scan EXCEPT !.i = @ + 1, !.mode = st.mode, !.indent = st.indent,
                              !.result = st.result]
  /\ UNCHANGED <<tpl, rerender, pmVars, runVars>>

\* return result.join('\n')
TplReturn ==
  /\ scan.pc = "loop"
  /\ scan.i > Len(scan.lines)
  /\ scan' = [scan EXCEPT !.pc = "done", !.output = Join(scan.result)]
  /\ UNCHANGED <<tpl, rerender, pmVars, runVars>>

\* the returned text is rendered again, as plain text: no substitution table,
\* the same section table
TplRerender ==
  /\ scan.pc = "done"
  /\ ~rerender.done
  /\ rerender' = [done |-> TRUE, text |-> executeTemplate(scan.output, <<>>, tpl.sections)]
  /\ UNCHANGED <<tpl, scan, pmVars, runVars>>

-----------------------------------------------------------------------------
(* The command line: the main function of cli.ts (the version that parses   *)
(* process.argv itself and rejects --x together with --no-x).               *)

\* allOptions, exported by generator.ts: the option of each entry (the
\* descriptions only appear in the help text)
allOptions ==
  << <<"-","-","h","e","l","p">> (* '--help' *), <<"-","-","b","r","o","w","s","e","r","=","<","n","a","m","e",">">> (* '--browser=<name>' *), <<"-","-","b","r","o","w","s","e","r","s">> (* '--browsers' *), <<"-","-","n","o","-","b","r","o","w","s","e","r","s">> (* '--no-browsers' *),
     <<"-","-","i","n","s","t","a","l","l","-","d","e","p","s">> (* '--install-deps' *), <<"-","-","n","e","x","t">> (* '--next' *), <<"-","-","b","e","t","a">> (* '--beta' *), <<"-","-","c","t">> (* '--ct' *), <<"-","-","q","u","i","e","t">> (* '--quiet' *),
     <<"-","-","g","h","a">> (* '--gha' *), <<"-","-","n","o","-","g","h","a">> (* '--no-gha' *), <<"-","-","l","a","n","g","=","<","j","s",">">> (* '--lang=<js>' *) >>

\* String.prototype.replace(pat, val) with a string pattern: the first occurrence only
ReplaceFirst(s, pat, val) ==
  LET p == IndexOf(s, pat)
  IN  IF p = 0 THEN s
      ELSE SubSeq(s, 1, p - 1) \o val \o SliceFrom(s, p - 1 + Len(pat))

SeqToSet(s) == { s[i] : i \in 1..Len(s) }

\* the pair pushed for a --no- option whose positive option is in allOptions
OptionPair(option) ==
  << ReplaceFirst(option, <<"-","-">> (* '--' *), <<>>),
     ReplaceFirst(ReplaceFirst(option, <<"-","-","n","o","-">> (* '--no-' *), <<"-","-">> (* '--' *)), <<"-","-">> (* '--' *), <<>>) >>

\* booleanOptionPairs: for every option of allOptions that starts with --no-
\* and whose positive option is in allOptions too
booleanOptionPairs ==
  { OptionPair(o) : o \in { x \in SeqToSet(allOptions) :
        /\ StartsWith(x, <<"-","-","n","o","-">> (* '--no-' *))
        /\ ReplaceFirst(x, <<"-","-","n","o","-">> (* '--no-' *), <<"-","-">> (* '--' *)) \in SeqToSet(allOptions) } }

\* token.match(/--([^=]+)(?:=(.*))?/): whether the expression matches at p
OptionTokenAt(token, p) ==
  /\ HasAt(token, <<"-","-">> (* '--' *), p)
  /\ p + 2 <= Len(token)
  /\ token[p + 2] # "="

\* the position after the longest run of characters other than '=' from i
RECURSIVE NameEnd(_, _)
NameEnd(s, i) == IF i <= Len(s) /\ s[i] # "=" THEN NameEnd(s, i + 1) ELSE i

\* token.match(/--([^=]+)(?:=(.*))?/): [ok, name, value] of the leftmost match;
\* an absent value (undefined) and an empty one are both <<>>
MatchOption(token) ==
  IF \E p \in 1..Len(token) : OptionTokenAt(token, p)
  THEN LET p == CHOOSE q \in 1..Len(token) :
                  OptionTokenAt(token, q) /\ \A j \in 1..(q - 1) : ~OptionTokenAt(token, j)
           e == NameEnd(token, p + 2)
       IN  [ok |-> TRUE, name |-> SubSeq(token, p + 2, e - 1), value |-> SliceFrom(token, e)]
  ELSE [ok |-> FALSE, name |-> <<>>, value |-> <<>>]

\* the body of 'for (const token of argv.filter(a => a.startsWith("--")))':
\* options is a function from the names seen so far to their lists of values
ParseToken(options, token) ==
  LET m == MatchOption(token)
  IN  IF ~m.ok THEN options
      ELSE IF m.name \in DOMAIN options
      THEN [options EXCEPT ![m.name] = Append(@, m.value)]
      ELSE IF m.value # <<>>
      THEN [n \in DOMAIN options \cup {m.name} |->
              IF n = m.name THEN <<m.value>> ELSE options[n]]
      ELSE [n \in DOMAIN options \cup {m.name} |->
              IF n = m.name THEN <<>> ELSE options[n]]

NoOptions == [n \in {} |-> <<>>]

RECURSIVE ParseArgv(_, _)
ParseArgv(options, argv) ==
  IF argv = <<>> THEN options
  ELSE IF StartsWith(Head(argv), <<"-","-">> (* '--' *))
  THEN ParseArgv(ParseToken(options, Head(argv)), Tail(argv))
  ELSE ParseArgv(options, Tail(argv))

\* options[name] is set (an array, truthy even when empty)
Has(options, name) == name \in DOMAIN options

\* Mutant: a pair conflicts when either of its two options is given
bothBooleanOptionsSpecified_Either(options) ==
  { pair \in booleanOptionPairs : Has(options, pair[1]) \/ Has(options, pair[2]) }

\* booleanOptionPairs.filter(([positive, negative]) => options[positive] && options[negative])
bothBooleanOptionsSpecified(options) ==
  { pair \in booleanOptionPairs : Has(options, pair[1]) /\ Has(options, pair[2]) }

\* process.argv.slice(2)
ArgvChoices ==
  { << >>,
    << <<"-","-","q","u","i","e","t">> (* '--quiet' *) >>,
    << <<"-","-","q","u","i","e","t">> (* '--quiet' *), <<"-","-","g","h","a">> (* '--gha' *), <<"-","-","l","a","n","g","=","j","s">> (* '--lang=js' *) >>,
    << <<"-","-","c","t">> (* '--ct' *) >>,
    << <<"-","-","h","e","l","p">> (* '--help' *) >>,
    << <<"-","-","g","h","a">> (* '--gha' *), <<"-","-","n","o","-","g","h","a">> (* '--no-gha' *) >>,
    << <<"-","-","n","o","-","g","h","a">> (* '--no-gha' *) >>,
    << <<"-","-","h","e","l","p">> (* '--help' *), <<"-","-","g","h","a">> (* '--gha' *), <<"-","-","n","o","-","g","h","a">> (* '--no-gha' *) >>,
    << <<"-","-","q","u","i","e","t">> (* '--quiet' *), <<"-","-","c","t">> (* '--ct' *), <<"-","-","b","e","t","a">> (* '--beta' *) >>,
    << <<"-","-","n","o","-","b","r","o","w","s","e","r","s">> (* '--no-browsers' *), <<"-","-","q","u","i","e","t">> (* '--quiet' *), <<"-","-","b","r","o","w","s","e","r","s">> (* '--browsers' *) >>,
    << <<"-","-","q","u","i","e","t">> (* '--quiet' *), <<"-","-","n","o","-","b","r","o","w","s","e","r","s">> (* '--no-browsers' *), <<"-","-","n","o","-","e","x","a","m","p","l","e","s">> (* '--no-examples' *) >>,
    << <<"-","-","q","u","i","e","t">> (* '--quiet' *), <<"-","-","b","r","o","w","s","e","r","=","c","h","r","o","m","i","u","m">> (* '--browser=chromium' *), <<"-","-","b","r","o","w","s","e","r","=","f","i","r","e","f","o","x">> (* '--browser=firefox' *), <<"-","-","n","e","x","t">> (* '--next' *) >> }

-----------------------------------------------------------------------------
(* The generator: class Generator of generator.ts, with executeCommands and *)
(* createFiles of utils.ts.                                                 *)

\* languageToFileExtension
languageToFileExtension(language) == IF language = "JavaScript" THEN <<"j","s">> (* 'js' *) ELSE <<"t","s">> (* 'ts' *)

\* path.join(a, b) for a relative directory a ('' included) and a file name b
PathJoin(a, b) == IF a = <<>> THEN b ELSE a \o <<"/">> \o b

\* commandToRunTests(packageManager) without args
commandToRunTests(packageManager) ==
  IF packageManager = "pnpm" THEN <<"p","n","p","m"," ","p","l","a","y","w","r","i","g","h","t"," ","t","e","s","t">> (* 'pnpm playwright test' *)
  ELSE IF packageManager = "yarn" THEN <<"y","a","r","n"," ","p","l","a","y","w","r","i","g","h","t"," ","t","e","s","t">> (* 'yarn playwright test' *)
  ELSE <<"n","p","x"," ","p","l","a","y","w","r","i","g","h","t"," ","t","e","s","t">> (* 'npx playwright test' *)

\* pmInstallCommand[packageManager]
pmInstallCommand(packageManager) ==
  CASE packageManager = "npm"  -> <<"n","p","m"," ","c","i">> (* 'npm ci' *)
    [] packageManager = "pnpm" -> <<"p","n","p","m"," ","i","n","s","t","a","l","l">> (* 'pnpm install' *)
    [] packageManager = "yarn" -> <<"y","a","r","n">> (* 'yarn' *)

\* pmInitializeCommand[packageManager]
pmInitializeCommand(packageManager) ==
  CASE packageManager = "npm"  -> <<"n","p","m"," ","i","n","i","t"," ","-","y">> (* 'npm init -y' *)
    [] packageManager = "pnpm" -> <<"p","n","p","m"," ","i","n","i","t">> (* 'pnpm init' *)
    [] packageManager = "yarn" -> <<"y","a","r","n"," ","i","n","i","t"," ","-","y">> (* 'yarn init -y' *)

\* pmOfficialName[packageManager]
pmOfficialName(packageManager) ==
  CASE packageManager = "npm"  -> <<"N","P","M">> (* 'NPM' *)
    [] packageManager = "pnpm" -> <<"P","n","p","m">> (* 'Pnpm' *)
    [] packageManager = "yarn" -> <<"Y","a","r","n">> (* 'Yarn' *)

\* pmInstallDevDepCommand[packageManager]
pmInstallDevDepCommand(packageManager) ==
  CASE packageManager = "npm"  -> <<"n","p","m"," ","i","n","s","t","a","l","l"," ","-","-","s","a","v","e","-","d","e","v">> (* 'npm install --save-dev' *)
    [] packageManager = "pnpm" -> <<"p","n","p","m"," ","a","d","d"," ","-","-","s","a","v","e","-","d","e","v">> (* 'pnpm add --save-dev' *)
    [] packageManager = "yarn" -> <<"y","a","r","n"," ","a","d","d"," ","-","-","d","e","v">> (* 'yarn add --dev' *)

\* Array.prototype.join(' ')
RECURSIVE JoinSpace(_)
JoinSpace(xs) ==
  IF xs = <<>> THEN <<>>
  ELSE IF Len(xs) = 1 THEN xs[1]
  ELSE xs[1] \o <<" ">> \o JoinSpace(Tail(xs))

BrowserNames == { <<"c","h","r","o","m","i","u","m">> (* 'chromium' *), <<"f","i","r","e","f","o","x">> (* 'firefox' *), <<"w","e","b","k","i","t">> (* 'webkit' *) }

\* sections.set(browserName, !options.browser || options.browser.includes(browserName) ? 'show' : 'comment')
BrowserSections(options) ==
  [ b \in BrowserNames |->
      IF ~Has(options, <<"b","r","o","w","s","e","r">> (* 'browser' *)) \/ b \in SeqToSet(options[<<"b","r","o","w","s","e","r">> (* 'browser' *)])
      THEN "show" ELSE "comment" ]

NoSections == [ b \in {} |-> "show" ]

\* A value of the file map: the asset it was read from, and the tables the asset
\* was rendered with (executeTemplate); <<>> and NoSections for an asset taken as is
FileContent(asset, args, sections) ==
  [ kind |-> "generated", asset |-> asset, args |-> args, sections |-> sections ]

\* what a file that was in rootDir before the run holds
PriorContent == [ kind |-> "prior", asset |-> <<>>, args |-> <<>>, sections |-> NoSections ]

\* Map.prototype.set: a new key goes last, a known key keeps its place
MapSet(files, path, value) ==
  IF \E i \in 1..Len(files) : files[i].path = path
  THEN [ i \in 1..Len(files) |->
           IF files[i].path = path THEN [path |-> path, value |-> value] ELSE files[i] ]
  ELSE Append(files, [path |-> path, value |-> value])

\* `${template}` of a value that may be undefined
Str(x) == IF x = <<>> THEN <<"u","n","d","e","f","i","n","e","d">> (* 'undefined' *) ELSE x

\* Mutant: the configuration file is playwright.config.<ext> whatever the
\* framework
IdentifyFiles_PlainConfig(r, answers) ==
  LET ext == languageToFileExtension(answers.language)
      f1 == MapSet(<<>>, <<"p","l","a","y","w","r","i","g","h","t",".","c","o","n","f","i","g",".">> (* 'playwright.config.' *) \o ext,
              FileContent(<<"p","l","a","y","w","r","i","g","h","t",".","c","o","n","f","i","g",".">> (* 'playwright.config.' *) \o ext,
                << [key |-> <<"t","e","s","t","D","i","r">> (* 'testDir' *), value |-> answers.testDir] >>, BrowserSections(r.options)))
      f2 == IF answers.installGitHubActions
            THEN MapSet(f1, <<".","g","i","t","h","u","b","/","w","o","r","k","f","l","o","w","s","/","p","l","a","y","w","r","i","g","h","t",".","y","m","l">> (* '.github/workflows/playwright.yml' *),
                   FileContent(<<"g","i","t","h","u","b","-","a","c","t","i","o","n","s",".","y","m","l">> (* 'github-actions.yml' *),
                     << [key |-> <<"i","n","s","t","a","l","l","D","e","p","s","C","o","m","m","a","n","d">> (* 'installDepsCommand' *), value |-> pmInstallCommand(r.packageManager)],
                        [key |-> <<"r","u","n","T","e","s","t","s","C","o","m","m","a","n","d">> (* 'runTestsCommand' *), value |-> commandToRunTests(r.packageManager)] >>,
                     NoSections))
            ELSE f1
  IN  IF answers.framework = <<>>
      THEN MapSet(f2, PathJoin(answers.testDir, <<"e","x","a","m","p","l","e",".","s","p","e","c",".">> (* 'example.spec.' *) \o ext),
             FileContent(<<"e","x","a","m","p","l","e",".","s","p","e","c",".">> (* 'example.spec.' *) \o ext, <<>>, NoSections))
      ELSE f2

\* _identifyChanges: the file map
IdentifyFiles(r, answers) ==
  LET ext == languageToFileExtension(answers.language)
      sections == BrowserSections(r.options)
      ctPackageName == <<"@","p","l","a","y","w","r","i","g","h","t","/","e","x","p","e","r","i","m","e","n","t","a","l","-","c","t","-">> (* '@playwright/experimental-ct-' *) \o answers.framework
      f1 == IF answers.framework # <<>>
            THEN MapSet(<<>>, <<"p","l","a","y","w","r","i","g","h","t","-","c","t",".","c","o","n","f","i","g",".">> (* 'playwright-ct.config.' *) \o ext,
                   FileContent(<<"p","l","a","y","w","r","i","g","h","t","-","c","t",".","c","o","n","f","i","g",".">> (* 'playwright-ct.config.' *) \o ext,
                     << [key |-> <<"t","e","s","t","D","i","r">> (* 'testDir' *), value |-> answers.testDir],
                        [key |-> <<"c","t","P","a","c","k","a","g","e","N","a","m","e">> (* 'ctPackageName' *), value |-> ctPackageName] >>, sections))
            ELSE MapSet(<<>>, <<"p","l","a","y","w","r","i","g","h","t",".","c","o","n","f","i","g",".">> (* 'playwright.config.' *) \o ext,
                   FileContent(<<"p","l","a","y","w","r","i","g","h","t",".","c","o","n","f","i","g",".">> (* 'playwright.config.' *) \o ext,
                     << [key |-> <<"t","e","s","t","D","i","r">> (* 'testDir' *), value |-> answers.testDir] >>, sections))
      f2 == IF answers.installGitHubActions
            THEN MapSet(f1, <<".","g","i","t","h","u","b","/","w","o","r","k","f","l","o","w","s","/","p","l","a","y","w","r","i","g","h","t",".","y","m","l">> (* '.github/workflows/playwright.yml' *),
                   FileContent(<<"g","i","t","h","u","b","-","a","c","t","i","o","n","s",".","y","m","l">> (* 'github-actions.yml' *),
                     << [key |-> <<"i","n","s","t","a","l","l","D","e","p","s","C","o","m","m","a","n","d">> (* 'installDepsCommand' *), value |-> pmInstallCommand(r.packageManager)],
                        [key |-> <<"r","u","n","T","e","s","t","s","C","o","m","m","a","n","d">> (* 'runTestsCommand' *), value |-> commandToRunTests(r.packageManager)] >>,
                     NoSections))
            ELSE f1
      f3 == IF answers.framework = <<>>
            THEN MapSet(
                   MapSet(f2, PathJoin(answers.testDir, <<"e","x","a","m","p","l","e",".","s","p","e","c",".">> (* 'example.spec.' *) \o ext),
                     FileContent(<<"e","x","a","m","p","l","e",".","s","p","e","c",".">> (* 'example.spec.' *) \o ext, <<>>, NoSections)),
                   PathJoin(<<"t","e","s","t","s","-","e","x","a","m","p","l","e","s">> (* 'tests-examples' *), <<"d","e","m","o","-","t","o","d","o","-","a","p","p",".","s","p","e","c",".">> (* 'demo-todo-app.spec.' *) \o ext),
                   FileContent(<<"d","e","m","o","-","t","o","d","o","-","a","p","p",".","s","p","e","c",".">> (* 'demo-todo-app.spec.' *) \o ext, <<>>, NoSections))
            ELSE f2
      f4 == IF Has(r.options, <<"c","t">> (* 'ct' *))
            THEN MapSet(
                   MapSet(f3, <<"p","l","a","y","w","r","i","g","h","t","/","i","n","d","e","x",".","h","t","m","l">> (* 'playwright/index.html' *),
                     FileContent(<<"p","l","a","y","w","r","i","g","h","t","/","i","n","d","e","x",".","h","t","m","l">> (* 'playwright/index.html' *),
                       << [key |-> <<"e","x","t","e","n","s","i","o","n">> (* 'extension' *), value |-> ext] >>, NoSections)),
                   <<"p","l","a","y","w","r","i","g","h","t","/","i","n","d","e","x",".">> (* 'playwright/index.' *) \o ext,
                   FileContent(<<"p","l","a","y","w","r","i","g","h","t","/","i","n","d","e","x",".","j","s">> (* 'playwright/index.js' *), <<>>, NoSections))
            ELSE f3
  IN  f4

\* Mutant: the project is initialized whether or not package.json exists
IdentifyCommands_AlwaysInit(r, answers) ==
  << [ name |-> <<"I","n","i","t","i","a","l","i","z","i","n","g"," ">> (* 'Initializing ' *) \o pmOfficialName(r.packageManager) \o <<" ","p","r","o","j","e","c","t">> (* ' project' *),
       command |-> pmInitializeCommand(r.packageManager) ],
     [ name |-> <<"I","n","s","t","a","l","l","i","n","g"," ","P","l","a","y","w","r","i","g","h","t"," ","T","e","s","t">> (* 'Installing Playwright Test' *),
       command |-> pmInstallDevDepCommand(r.packageManager) \o <<" ","@","p","l","a","y","w","r","i","g","h","t","/","t","e","s","t">> (* ' @playwright/test' *) ],
     [ name |-> <<"D","o","w","n","l","o","a","d","i","n","g"," ","b","r","o","w","s","e","r","s">> (* 'Downloading browsers' *),
       command |-> <<"n","p","x"," ","p","l","a","y","w","r","i","g","h","t"," ","i","n","s","t","a","l","l">> (* 'npx playwright install' *) ] >>

\* Mutant: the browsers are downloaded before the package is installed
IdentifyCommands_BrowsersFirst(r, answers) ==
  << [ name |-> <<"D","o","w","n","l","o","a","d","i","n","g"," ","b","r","o","w","s","e","r","s">> (* 'Downloading browsers' *),
       command |-> <<"n","p","x"," ","p","l","a","y","w","r","i","g","h","t"," ","i","n","s","t","a","l","l">> (* 'npx playwright install' *) ],
     [ name |-> <<"I","n","s","t","a","l","l","i","n","g"," ","P","l","a","y","w","r","i","g","h","t"," ","T","e","s","t">> (* 'Installing Playwright Test' *),
       command |-> pmInstallDevDepCommand(r.packageManager) \o <<" ","@","p","l","a","y","w","r","i","g","h","t","/","t","e","s","t">> (* ' @playwright/test' *) ] >>

\* _identifyChanges: the command list
IdentifyCommands(r, answers) ==
  LET ctPackageName ==
        IF answers.framework # <<>>
        THEN <<"@","p","l","a","y","w","r","i","g","h","t","/","e","x","p","e","r","i","m","e","n","t","a","l","-","c","t","-">> (* '@playwright/experimental-ct-' *) \o answers.framework
        ELSE <<>>
      packageLine ==
        IF Has(r.options, <<"n","e","x","t">> (* 'next' *)) THEN <<"@","n","e","x","t">> (* '@next' *)
        ELSE IF Has(r.options, <<"b","e","t","a">> (* 'beta' *)) THEN <<"@","b","e","t","a">> (* '@beta' *)
        ELSE <<>>
      c1 == IF r.pkg.status = "missing"
            THEN << [ name |-> <<"I","n","i","t","i","a","l","i","z","i","n","g"," ">> (* 'Initializing ' *) \o pmOfficialName(r.packageManager) \o <<" ","p","r","o","j","e","c","t">> (* ' project' *),
                      command |-> pmInitializeCommand(r.packageManager) ] >>
            ELSE << >>
      c2 == IF ~Has(r.options, <<"c","t">> (* 'ct' *))
            THEN << [ name |-> <<"I","n","s","t","a","l","l","i","n","g"," ","P","l","a","y","w","r","i","g","h","t"," ","T","e","s","t">> (* 'Installing Playwright Test' *),
                      command |-> pmInstallDevDepCommand(r.packageManager)
                                    \o <<" ","@","p","l","a","y","w","r","i","g","h","t","/","t","e","s","t">> (* ' @playwright/test' *) \o packageLine ] >>
            ELSE << [ name |-> <<"I","n","s","t","a","l","l","i","n","g"," ","P","l","a","y","w","r","i","g","h","t"," ","C","o","m","p","o","n","e","n","t"," ","T","e","s","t","i","n","g">> (* 'Installing Playwright Component Testing' *),
                      command |-> pmInstallDevDepCommand(r.packageManager)
                                    \o <<" ">> \o Str(ctPackageName) \o packageLine ] >>
      c3 == << [ name |-> <<"D","o","w","n","l","o","a","d","i","n","g"," ","b","r","o","w","s","e","r","s">> (* 'Downloading browsers' *),
                 command |-> <<"n","p","x"," ","p","l","a","y","w","r","i","g","h","t"," ","i","n","s","t","a","l","l">> (* 'npx playwright install' *)
                   \o (IF answers.installPlaywrightDependencies THEN <<" ","-","-","w","i","t","h","-","d","e","p","s">> (* ' --with-deps' *) ELSE <<>>)
                   \o (IF Has(r.options, <<"b","r","o","w","s","e","r">> (* 'browser' *))
                       THEN <<" ">> \o JoinSpace(r.options[<<"b","r","o","w","s","e","r">> (* 'browser' *)]) ELSE <<>>) ] >>
  IN  c1 \o c2 \o c3

-----------------------------------------------------------------------------
(* One run of the program: main of cli.ts, then Generator.run.  The variable *)
(* run holds the process (pc, exitCode, stdout, stderr), what it was started *)
(* with (argv, the environment, the state of rootDir) and the Generator's   *)
(* fields.  File-system calls succeed and every prompt is answered.         *)

\* PromptOptions
Answers(language, framework, testDir, installGitHubActions, installPlaywrightDependencies) ==
  [ language |-> language, framework |-> framework, testDir |-> testDir,
    installGitHubActions |-> installGitHubActions,
    installPlaywrightDependencies |-> installPlaywrightDependencies ]

\* the answers before _askQuestions has returned
NoAnswers == Answers("TypeScript", <<>>, <<>>, FALSE, FALSE)

\* process.env.TEST_OPTIONS: unset, or the JSON text of a PromptOptions
TestOptionsChoices ==
  { [ set |-> FALSE, answers |-> NoAnswers ],
    [ set |-> TRUE,  answers |-> Answers("JavaScript", <<>>, <<"t","e","s","t","s">> (* 'tests' *), TRUE, FALSE) ],
    [ set |-> TRUE,  answers |-> Answers("TypeScript", <<"r","e","a","c","t">> (* 'react' *), <<"t","e","s","t","s">> (* 'tests' *), TRUE, FALSE) ] }

\* package.json of rootDir: missing, not JSON, or an object of which the model
\* keeps whether it has scripts, scripts.test and scripts['test-ct']
PackageJSON(status, hasScripts, test, testCt) ==
  [ status |-> status, hasScripts |-> hasScripts, test |-> test, testCt |-> testCt ]

PackageJSON_missing == PackageJSON("missing", FALSE, <<>>, <<>>)

PackageJSON_invalid == PackageJSON("invalid", FALSE, <<>>, <<>>)

\* what 'npm init -y' and 'pnpm init' write
PackageJSON_initialized ==
  PackageJSON("ok", TRUE, <<"e","c","h","o"," ","\"","E","r","r","o","r",":"," ","n","o"," ","t","e","s","t"," ","s","p","e","c","i","f","i","e","d","\""," ","&","&"," ","e","x","i","t"," ","1">> (* 'echo "Error: no test specified" && exit 1' *), <<>>)

\* what 'yarn init -y' writes
PackageJSON_yarn == PackageJSON("ok", FALSE, <<>>, <<>>)

\* a project with a test script of its own
PackageJSON_custom == PackageJSON("ok", TRUE, <<"j","e","s","t">> (* 'jest' *), <<>>)

PackageJSONChoices ==
  { PackageJSON_missing, PackageJSON_invalid, PackageJSON_initialized, PackageJSON_custom }

\* the four entries of a patched .gitignore, one per line
ValidGitIgnore ==
  <<"n","o","d","e","_","m","o","d","u","l","e","s","/">> (* 'node_modules/' *) \o <<NL>> \o <<"/","t","e","s","t","-","r","e","s","u","l","t","s","/">> (* '/test-results/' *) \o <<NL>>
    \o <<"/","p","l","a","y","w","r","i","g","h","t","-","r","e","p","o","r","t","/">> (* '/playwright-report/' *) \o <<NL>> \o <<"/","p","l","a","y","w","r","i","g","h","t","/",".","c","a","c","h","e","/">> (* '/playwright/.cache/' *)

\* .gitignore of rootDir: missing, holding the four entries already (and
\* trailing blank lines), or holding none of them
GitIgnoreChoices ==
  { [ exists |-> FALSE, text |-> <<>> ],
    [ exists |-> TRUE,  text |-> ValidGitIgnore \o <<NL, NL>> ],
    [ exists |-> TRUE,  text |-> <<"d","i","s","t">> (* 'dist' *) ] }

\* the files of rootDir that a run may find in its way
PriorFiles == { <<"p","l","a","y","w","r","i","g","h","t",".","c","o","n","f","i","g",".","t","s">> (* 'playwright.config.ts' *), <<"t","e","s","t","s","/","e","x","a","m","p","l","e",".","s","p","e","c",".","t","s">> (* 'tests/example.spec.ts' *) }

\* npm_config_user_agent, the lock files of rootDir, and whether rootDir/.npmrc
\* sets package-lock=false
AgentChoices ==
  { [ userAgent |-> UA_unset, yarnLock |-> FALSE, pnpmLock |-> FALSE, npmrcNoPackageLock |-> FALSE ],
    [ userAgent |-> UA_npm,   yarnLock |-> FALSE, pnpmLock |-> FALSE, npmrcNoPackageLock |-> TRUE ],
    [ userAgent |-> UA_yarn1, yarnLock |-> FALSE, pnpmLock |-> FALSE, npmrcNoPackageLock |-> FALSE ],
    [ userAgent |-> UA_npm,   yarnLock |-> FALSE, pnpmLock |-> TRUE,  npmrcNoPackageLock |-> FALSE ] }

\* the process at its start
RunStart(argv, testOptions, agent, rootDirExists, pkg, gitignore, prior, tsconfig) ==
  [ pc |-> "main",
    exitCode |-> 0,
    cause |-> "none",
    stdout |-> <<>>,
    stderr |-> <<>>,
    argv |-> argv,
    testOptions |-> testOptions,
    agent |-> agent,
    rootDirExists |-> rootDirExists,
    pkg |-> pkg,
    gitignore |-> gitignore,
    gitignoreBefore |-> gitignore,
    disk |-> [ p \in prior |-> PriorContent ],
    tsconfig |-> tsconfig,
    options |-> NoOptions,
    constructed |-> FALSE,
    packageManager |-> "npm",
    answers |-> NoAnswers,
    commands |-> <<>>,
    files |-> <<>>,
    ci |-> 1,
    fi |-> 1,
    executed |-> <<>>,
    written |-> <<>>,
    prompts |-> <<>>,
    declined |-> {} ]

\* fs.existsSync(path.join(rootDir, 'tests'))
TestsDirExists(r) == \E p \in DOMAIN r.disk : StartsWith(p, <<"t","e","s","t","s","/">> (* 'tests/' *))

\* process.exit(code), or the end of the event loop with code 0
Exit(r, code, cause) == [ r EXCEPT !.pc = "exited", !.exitCode = code, !.cause = cause ]

\* the catch of main: console.error(error); process.exit(1)
Fail(r, cause) == Exit([ r EXCEPT !.stderr = Append(@, "error") ], 1, cause)

\* main up to the construction of the Generator
main(r) ==
  LET options == ParseArgv(NoOptions, r.argv)
      parsed == [ r EXCEPT !.options = options ]
  IN  IF Has(options, <<"h","e","l","p">> (* 'help' *))
      THEN Exit([ parsed EXCEPT !.stdout = Append(@, "help") ], 0, "help")
      ELSE IF bothBooleanOptionsSpecified(options) # {}
      THEN Exit([ parsed EXCEPT !.stderr = Append(@, "Cannot specify both of") ], 1, "conflict")
      ELSE [ parsed EXCEPT !.pc = "construct" ]

\* new Generator(rootDir, options)
Generator_constructor(r) ==
  [ r EXCEPT !.rootDirExists = TRUE,
             !.packageManager = determinePackageManager_utils(r.agent).cli,
             !.constructed = TRUE,
             !.stdout = Append(@, "prologue"),
             !.pc = "ask" ]

\* whether _askQuestions prompts
Interactive(r) == ~r.testOptions.set /\ ~Has(r.options, <<"q","u","i","e","t">> (* 'quiet' *))

\* the answers _askQuestions computes for --quiet
QuietAnswers(r) ==
  Answers(IF Has(r.options, <<"l","a","n","g">> (* 'lang' *)) /\ r.options[<<"l","a","n","g">> (* 'lang' *)] # <<>> /\ r.options[<<"l","a","n","g">> (* 'lang' *)][1] = <<"j","s">> (* 'js' *)
          THEN "JavaScript" ELSE "TypeScript",
          <<>>,
          IF TestsDirExists(r) THEN <<"e","2","e">> (* 'e2e' *) ELSE <<"t","e","s","t","s">> (* 'tests' *),
          Has(r.options, <<"g","h","a">> (* 'gha' *)),
          Has(r.options, <<"i","n","s","t","a","l","l","-","d","e","p","s">> (* 'install-deps' *)))

\* the names of the questions of questions.filter(Boolean), on linux
Questions(r) ==
  (IF ~r.tsconfig THEN << <<"l","a","n","g","u","a","g","e">> (* 'language' *) >> ELSE << >>)
  \o (IF Has(r.options, <<"c","t">> (* 'ct' *)) THEN << <<"f","r","a","m","e","w","o","r","k">> (* 'framework' *) >>
      ELSE << <<"t","e","s","t","D","i","r">> (* 'testDir' *), <<"i","n","s","t","a","l","l","G","i","t","H","u","b","A","c","t","i","o","n","s">> (* 'installGitHubActions' *) >>)
  \o << <<"i","n","s","t","a","l","l","P","l","a","y","w","r","i","g","h","t","D","e","p","e","n","d","e","n","c","i","e","s">> (* 'installPlaywrightDependencies' *) >>

\* what the user may reply to the questions
Replies(r) ==
  IF ~Interactive(r) THEN { NoAnswers }
  ELSE { Answers(l, f, t, g, d) :
           l \in (IF r.tsconfig THEN {"TypeScript"} ELSE {"TypeScript", "JavaScript"}),
           f \in (IF Has(r.options, <<"c","t">> (* 'ct' *)) THEN { <<"r","e","a","c","t">> (* 'react' *), <<"v","u","e">> (* 'vue' *) } ELSE { <<>> }),
           t \in (IF Has(r.options, <<"c","t">> (* 'ct' *)) THEN { <<>> } ELSE { <<"t","e","s","t","s">> (* 'tests' *), <<"e","2","e">> (* 'e2e' *) }),
           g \in (IF Has(r.options, <<"c","t">> (* 'ct' *)) THEN { FALSE } ELSE BOOLEAN),
           d \in BOOLEAN }

\* _askQuestions; reply is used when the questions are asked
Generator_askQuestions(r, reply) ==
  IF r.testOptions.set
  THEN [ r EXCEPT !.answers = r.testOptions.answers, !.pc = "identify" ]
  ELSE IF Has(r.options, <<"q","u","i","e","t">> (* 'quiet' *))
  THEN [ r EXCEPT !.answers = QuietAnswers(r), !.pc = "identify" ]
  ELSE [ r EXCEPT !.answers = reply,
                  !.prompts = @ \o [ i \in 1..Len(Questions(r)) |->
                                       [ kind |-> "question", name |-> Questions(r)[i], answer |-> TRUE ] ],
                  !.pc = "identify" ]

\* Mutant: the commands are skipped and the files are created at once
Generator_identifyChanges_FilesFirst(r) ==
  [ r EXCEPT !.files = IdentifyFiles(r, r.answers),
             !.commands = IdentifyCommands(r, r.answers),
             !.ci = 1,
             !.fi = 1,
             !.pc = "create" ]

\* _identifyChanges
Generator_identifyChanges(r) ==
  [ r EXCEPT !.files = IdentifyFiles(r, r.answers),
             !.commands = IdentifyCommands(r, r.answers),
             !.ci = 1,
             !.pc = "exec" ]

\* what a command that exits with 0 leaves in rootDir
CommandEffect(r, c) ==
  IF c.command = pmInitializeCommand(r.packageManager)
  THEN IF r.packageManager = "yarn" THEN PackageJSON_yarn ELSE PackageJSON_initialized
  ELSE r.pkg

\* the lock files of rootDir after a command that exits with 0: 'yarn add'
\* leaves yarn.lock and 'pnpm add' leaves pnpm-lock.yaml
LockEffect(r, c) ==
  IF StartsWith(c.command, pmInstallDevDepCommand(r.packageManager))
  THEN [ r.agent EXCEPT !.yarnLock = @ \/ r.packageManager = "yarn",
                        !.pnpmLock = @ \/ r.packageManager = "pnpm" ]
  ELSE r.agent

\* Mutant: after every command the package manager is taken to be npm
executeCommands_step_Redetermine(r, ok) ==
  IF ok
  THEN [ r EXCEPT !.executed = Append(@, r.commands[r.ci].command),
                  !.pkg = CommandEffect(r, r.commands[r.ci]),
                  !.agent = LockEffect(r, r.commands[r.ci]),
                  !.packageManager = "npm",
                  !.ci = @ + 1,
                  !.fi = 1,
                  !.pc = IF r.ci = Len(r.commands) THEN "create" ELSE "exec" ]
  ELSE Fail([ r EXCEPT !.executed = Append(@, r.commands[r.ci].command) ], "command")

\* Mutant: a failing command is reported and the loop goes on
executeCommands_step_Continue(r, ok) ==
  [ r EXCEPT !.executed = Append(@, r.commands[r.ci].command),
             !.pkg = IF ok THEN CommandEffect(r, r.commands[r.ci]) ELSE @,
             !.agent = IF ok THEN LockEffect(r, r.commands[r.ci]) ELSE @,
             !.stderr = IF ok THEN @ ELSE Append(@, "error"),
             !.cause = IF ok THEN @ ELSE "command",
             !.ci = @ + 1,
             !.fi = 1,
             !.pc = IF r.ci = Len(r.commands) THEN "create" ELSE "exec" ]

\* one turn of the loop of executeCommands: execSync(command) returns (ok) or throws
executeCommands_step(r, ok) ==
  IF ok
  THEN [ r EXCEPT !.executed = Append(@, r.commands[r.ci].command),
                  !.pkg = CommandEffect(r, r.commands[r.ci]),
                  !.agent = LockEffect(r, r.commands[r.ci]),
                  !.ci = @ + 1,
                  !.fi = 1,
                  !.pc = IF r.ci = Len(r.commands) THEN "create" ELSE "exec" ]
  ELSE Fail([ r EXCEPT !.executed = Append(@, r.commands[r.ci].command) ], "command")

\* fs.writeFileSync(absoluteFilePath, value) of createFiles
WriteFile(r, path, value) ==
  [ r EXCEPT !.disk = [ p \in DOMAIN r.disk \cup {path} |->
                          IF p = path THEN value ELSE r.disk[p] ],
             !.written = Append(@, path) ]

\* Mutant: an existing file is written without asking
createFiles_step_NoPrompt(r, force, override) ==
  [ WriteFile(r, r.files[r.fi].path, r.files[r.fi].value) EXCEPT !.fi = @ + 1 ]

\* Mutant: declining the override is an error
createFiles_step_Throw(r, force, override) ==
  LET f == r.files[r.fi]
  IN  IF f.path \in DOMAIN r.disk /\ ~force
      THEN LET asked == [ r EXCEPT !.prompts =
                            Append(@, [ kind |-> "override", name |-> f.path, answer |-> override ]) ]
           IN  IF ~override
               THEN Fail([ asked EXCEPT !.declined = @ \cup {f.path} ], "override")
               ELSE [ WriteFile(asked, f.path, f.value) EXCEPT !.fi = @ + 1 ]
      ELSE [ WriteFile(r, f.path, f.value) EXCEPT !.fi = @ + 1 ]

\* one turn of the loop of createFiles(rootDir, files, force); override is the
\* user's answer, used when the prompt is shown
createFiles_step(r, force, override) ==
  LET f == r.files[r.fi]
  IN  IF f.path \in DOMAIN r.disk /\ ~force
      THEN LET asked == [ r EXCEPT !.prompts =
                            Append(@, [ kind |-> "override", name |-> f.path, answer |-> override ]) ]
           IN  IF ~override
               THEN [ asked EXCEPT !.declined = @ \cup {f.path}, !.fi = @ + 1 ]
               ELSE [ WriteFile(asked, f.path, f.value) EXCEPT !.fi = @ + 1 ]
      ELSE [ WriteFile(r, f.path, f.value) EXCEPT !.fi = @ + 1 ]

IsSpaceOrNewline(c) == IsSpace(c) \/ c = NL

\* String.prototype.trimEnd
RECURSIVE TrimEnd(_)
TrimEnd(s) ==
  IF s # <<>> /\ IsSpaceOrNewline(s[Len(s)]) THEN TrimEnd(SubSeq(s, 1, Len(s) - 1)) ELSE s

\* the text _patchGitIgnore writes
PatchedGitIgnore(g) ==
  LET a == IF g.exists THEN TrimEnd(g.text) \o <<NL>> ELSE <<>>
      b == IF ~Includes(a, <<"n","o","d","e","_","m","o","d","u","l","e","s">> (* 'node_modules' *)) THEN a \o <<"n","o","d","e","_","m","o","d","u","l","e","s","/">> (* 'node_modules/' *) \o <<NL>> ELSE a
  IN  b \o <<"/","t","e","s","t","-","r","e","s","u","l","t","s","/">> (* '/test-results/' *) \o <<NL>>
        \o <<"/","p","l","a","y","w","r","i","g","h","t","-","r","e","p","o","r","t","/">> (* '/playwright-report/' *) \o <<NL>>
        \o <<"/","p","l","a","y","w","r","i","g","h","t","/",".","c","a","c","h","e","/">> (* '/playwright/.cache/' *) \o <<NL>>

\* _patchGitIgnore
Generator_patchGitIgnore(r) ==
  [ r EXCEPT !.gitignore = [ exists |-> TRUE, text |-> PatchedGitIgnore(r.gitignore) ],
             !.written = Append(@, <<".","g","i","t","i","g","n","o","r","e">> (* '.gitignore' *)),
             !.pc = "packageJSON" ]

\* Mutant: scripts.test is deleted whatever it holds
PatchedPackageJSON_DropsTest(p, answers) ==
  [ p EXCEPT !.hasScripts = TRUE,
             !.test = <<>>,
             !.testCt = IF answers.framework # <<>>
                        THEN <<"p","l","a","y","w","r","i","g","h","t"," ","t","e","s","t"," ","-","c"," ","p","l","a","y","w","r","i","g","h","t","-","c","t",".","c","o","n","f","i","g",".">> (* 'playwright test -c playwright-ct.config.' *)
                               \o languageToFileExtension(answers.language)
                        ELSE @ ]

\* the object _patchPackageJSON writes back
PatchedPackageJSON(p, answers) ==
  [ p EXCEPT !.hasScripts = TRUE,
             !.test = IF Includes(p.test, <<"n","o"," ","t","e","s","t"," ","s","p","e","c","i","f","i","e","d">> (* 'no test specified' *)) THEN <<>> ELSE @,
             !.testCt = IF answers.framework # <<>>
                        THEN <<"p","l","a","y","w","r","i","g","h","t"," ","t","e","s","t"," ","-","c"," ","p","l","a","y","w","r","i","g","h","t","-","c","t",".","c","o","n","f","i","g",".">> (* 'playwright test -c playwright-ct.config.' *)
                               \o languageToFileExtension(answers.language)
                        ELSE @ ]

\* _patchPackageJSON, then the epilogue and the end of the process; JSON.parse
\* or readFileSync throws when package.json is missing or is not JSON
Generator_patchPackageJSON(r) ==
  IF r.pkg.status # "ok"
  THEN Fail(r, "packageJSON")
  ELSE Exit([ r EXCEPT !.pkg = PatchedPackageJSON(r.pkg, r.answers),
                       !.written = Append(@, <<"p","a","c","k","a","g","e",".","j","s","o","n">> (* 'package.json' *)),
                       !.stdout = Append(@, IF r.answers.framework # <<>>
                                            THEN "epilogueCT" ELSE "epilogue") ],
            0, "none")

RunInit ==
  /\ run \in { RunStart(argv, testOptions, agent, rootDirExists, pkg, gitignore, prior, tsconfig) :
                 argv \in ArgvChoices,
                 testOptions \in TestOptionsChoices,
                 agent \in AgentChoices,
                 rootDirExists \in BOOLEAN,
                 pkg \in PackageJSONChoices,
                 gitignore \in GitIgnoreChoices,
                 prior \in SUBSET PriorFiles,
                 tsconfig \in BOOLEAN }
  /\ ~run.rootDirExists =>
       /\ run.pkg = PackageJSON_missing
       /\ ~run.gitignore.exists
       /\ DOMAIN run.disk = {}
       /\ ~run.tsconfig
       /\ ~run.agent.yarnLock /\ ~run.agent.pnpmLock /\ ~run.agent.npmrcNoPackageLock
  /\ env = None /\ pm = NoPM /\ depName = None /\ out = None
  /\ tpl = None /\ scan = None /\ rerender = None

Main ==
  /\ run.pc = "main"
  /\ run' = main(run)
  /\ UNCHANGED <<pmVars, tplVars>>

Construct ==
  /\ run.pc = "construct"
  /\ run' = Generator_constructor(run)
  /\ UNCHANGED <<pmVars, tplVars>>

AskQuestions ==
  /\ run.pc = "ask"
  /\ \E reply \in Replies(run) : run' = Generator_askQuestions(run, reply)
  /\ UNCHANGED <<pmVars, tplVars>>

IdentifyChanges ==
  /\ run.pc = "identify"
  /\ run' = Generator_identifyChanges(run)
  /\ UNCHANGED <<pmVars, tplVars>>

ExecuteCommand ==
  /\ run.pc = "exec"
  /\ run.ci <= Len(run.commands)
  /\ \E ok \in BOOLEAN : run' = executeCommands_step(run, ok)
  /\ UNCHANGED <<pmVars, tplVars>>

CreateFile ==
  /\ run.pc = "create"
  /\ run.fi <= Len(run.files)
  /\ \E override \in BOOLEAN : run' = createFiles_step(run, FALSE, override)
  /\ UNCHANGED <<pmVars, tplVars>>

PatchGitIgnore ==
  /\ run.pc = "create"
  /\ run.fi > Len(run.files)
  /\ run' = Generator_patchGitIgnore(run)
  /\ UNCHANGED <<pmVars, tplVars>>

PatchPackageJSON ==
  /\ run.pc = "packageJSON"
  /\ run' = Generator_patchPackageJSON(run)
  /\ UNCHANGED <<pmVars, tplVars>>

-----------------------------------------------------------------------------
(* Claims about the package-manager layer, checked under SpecPM.            *)

\* the command holds the argument flag as a word of its own
HasFlag(cmd, flag) == Includes(cmd, <<" ">> \o flag \o <<" ">>)

\* C1: for every package manager and every package name, the command returned
\* by installDevDependency(name) contains name verbatim, and contains the
\* workspace-root flag (-W for yarn, -w for pnpm) if and only if a workspace was
\* detected and, for yarn, the detected version is classic.
C1_InstallDevDependency ==
  out.installDevDependency # None =>
    /\ Includes(out.installDevDependency, depName)
    /\ (HasFlag(out.installDevDependency, <<"-","W">> (* '-W' *)) <=>
          (pm.cli = "yarn" /\ pm.workspace /\ pm.classic))
    /\ (HasFlag(out.installDevDependency, <<"-","w">> (* '-w' *)) <=>
          (pm.cli = "pnpm" /\ pm.workspace))

\* C1 witness: yarn classic in a workspace has returned its command
C1_Witness ==
  /\ pm.cli = "yarn" /\ pm.workspace /\ pm.classic
  /\ out.installDevDependency # None

C3_LockFilePriority ==
  pm.via = "utils" =>
    /\ (env.yarnLock => pm.cli = "yarn")
    /\ ((~env.yarnLock /\ env.pnpmLock) => pm.cli = "pnpm")

\* C3 witness: yarn.lock is present, the agent names pnpm and not yarn, and the
\* result is yarn
C3_Witness ==
  /\ pm.via = "utils" /\ env.yarnLock
  /\ Includes(env.userAgent, <<"p","n","p","m">> (* 'pnpm' *)) /\ ~Includes(env.userAgent, <<"y","a","r","n">> (* 'yarn' *))
  /\ pm.cli = "yarn"

ManifestUnusable == env.packageJson \in {"missing", "invalid"}

NoWorkspaceFlag ==
  out.installDevDependency # None =>
    (~HasFlag(out.installDevDependency, <<"-","W">> (* '-W' *)) /\ ~HasFlag(out.installDevDependency, <<"-","w">> (* '-w' *)))

\* C20 as stated: with package.json missing or not JSON the project is no
\* workspace for any package manager, and installDevDependency emits no
\* workspace-root flag
C20_Original ==
  (pm.via = "packageManager" /\ ManifestUnusable) =>
    (~pm.workspace /\ NoWorkspaceFlag)

\* C20: construction never raises.  With package.json missing or not JSON,
\* yarn (and npm) treat the project as no workspace and emit no workspace-root
\* flag; pnpm does not read package.json: it is a workspace exactly when
\* pnpm-workspace.yaml exists, and emits -w exactly then.
C20_WorkspaceDetectionNeverRaises ==
  (pm.via = "packageManager" /\ ManifestUnusable) =>
    /\ pm.cli \in {"npm", "yarn", "pnpm"}
    /\ (pm.cli # "pnpm") => (~pm.workspace /\ NoWorkspaceFlag)
    /\ (pm.cli = "pnpm") =>
         ( /\ pm.workspace = env.pnpmWorkspaceYaml
           /\ (out.installDevDependency # None) =>
                ( /\ ~HasFlag(out.installDevDependency, <<"-","W">> (* '-W' *))
                  /\ HasFlag(out.installDevDependency, <<"-","w">> (* '-w' *)) <=> env.pnpmWorkspaceYaml ) )

\* C20 witness: yarn classic, package.json is not JSON, the command has no -W
C20_Witness ==
  /\ pm.via = "packageManager" /\ pm.cli = "yarn" /\ pm.classic
  /\ env.packageJson = "invalid"
  /\ ~pm.workspace
  /\ out.installDevDependency # None
  /\ out.installDevDependency = <<"y","a","r","n"," ","a","d","d"," ","-","-","d","e","v"," ">> (* 'yarn add --dev ' *) \o depName

\* C21: a package manager that detects workspaces reports one exactly when
\* package.json declares a non-empty workspaces field or pnpm-workspace.yaml
\* exists next to it.  The formula is the claim's second half: a package.json
\* whose workspaces field is empty, with no pnpm-workspace.yaml, is no workspace.
C21_EmptyWorkspacesIsNoWorkspace ==
  ( /\ pm.via = "packageManager"
    /\ env.packageJson = "emptyWorkspaces"
    /\ ~env.pnpmWorkspaceYaml ) => ~pm.workspace

\* the major version of a version a.b.c: the digits before the first dot
MajorOf(version) == SubSeq(version, 1, IndexOf(version, <<".">>) - 1)

\* C22: yarn is classic exactly when the major version read from
\* npm_config_user_agent is 0 or 1, and berry when it is 2 or greater, also
\* for a major of several digits such as 10.
C22_ClassicExactlyMajor0Or1 ==
  (pm.via = "packageManager" /\ pm.cli = "yarn" /\ YarnVersion(env.userAgent) # <<>>) =>
    (pm.classic <=> MajorOf(YarnVersion(env.userAgent)) \in { <<"0">>, <<"1">> })
-----------------------------------------------------------------------------
(* Claims about the template renderer, checked under SpecTpl.               *)

\* A marker line: a line in which '//--begin-' occurs, or whose text after the
\* leading white space starts with '//--end-'
IsMarkerLine(line) == IsBeginLine(line) \/ IsEndLine(line)

NotMarkerLine(line) == ~IsMarkerLine(line)

\* every section that begins in the input has the entry 'show'
AllSectionsShown ==
  \A i \in 1..Len(Split(tpl.input)) :
    LET line == Split(tpl.input)[i]
    IN  IsBeginLine(line) =>
          /\ BeginName(line) \in DOMAIN tpl.sections
          /\ tpl.sections[BeginName(line)] = "show"

\* C9: with an empty substitution table and every section of the template set
\* to show, executeTemplate returns the template with exactly the marker lines
\* removed: every other line is there, unchanged and in the original order.
C9_ShowAllRemovesOnlyMarkers ==
  (scan.pc = "done" /\ tpl.args = <<>> /\ AllSectionsShown) =>
    scan.output = Join(SelectSeq(Split(tpl.input), NotMarkerLine))

\* C9 witness: a shown section with one line in it and a line after it
C9_Witness ==
  /\ scan.pc = "done" /\ tpl.args = <<>> /\ AllSectionsShown
  /\ tpl.input = Join(<< <<" "," ","/","/","-","-","b","e","g","i","n","-","w","k">> (* '  //--begin-wk' *), <<" "," "," ","/","/"," ","c","{","{","k","}","}">> (* '   // c{{k}}' *), <<" "," ","/","/","-","-","e","n","d","-","w","k">> (* '  //--end-wk' *) >>)
  /\ scan.output = <<" "," "," ","/","/"," ","c","{","{","k","}","}">> (* '   // c{{k}}' *)

\* o is line with '// ' inserted once, at some position
InsertedOnce(line, o) ==
  \E k \in 0..Len(line) : o = SliceTo(line, k) \o <<"/","/"," ">> (* '// ' *) \o SliceFrom(line, k)

\* C10: every non-blank line inside a section in comment mode is emitted once,
\* as the line with the disabling prefix '// ' added exactly once; the returned
\* text contains no marker line, and rendering it again (as plain text, with
\* the same section table) returns it unchanged.
C10_CommentOnceAndStable ==
  /\ [][ ( /\ scan.pc = "loop" /\ scan.i <= Len(scan.lines)
           /\ scan.mode = "comment"
           /\ NotMarkerLine(scan.lines[scan.i])
           /\ Trim(scan.lines[scan.i]) # <<>> )
         => ( /\ Len(scan'.result) = Len(scan.result) + 1
              /\ SubSeq(scan'.result, 1, Len(scan.result)) = scan.result
              /\ InsertedOnce(scan.lines[scan.i], scan'.result[Len(scan'.result)]) ) ]_vars
  /\ [](scan.pc = "done" =>
          \A i \in 1..Len(Split(scan.output)) : NotMarkerLine(Split(scan.output)[i]))
  /\ [](rerender.done => rerender.text = scan.output)

\* C10 witness: a commented section whose line is already a comment and is
\* indented more than the begin marker; the text was rendered again
C10_Witness ==
  /\ rerender.done
  /\ tpl.args = <<>>
  /\ tpl.input = Join(<< <<" "," ","/","/","-","-","b","e","g","i","n","-","w","k">> (* '  //--begin-wk' *), <<" "," "," ","/","/"," ","c","{","{","k","}","}">> (* '   // c{{k}}' *), <<" "," ","/","/","-","-","e","n","d","-","w","k">> (* '  //--end-wk' *) >>)
  /\ <<"w","k">> (* 'wk' *) \in DOMAIN tpl.sections /\ tpl.sections[<<"w","k">> (* 'wk' *)] = "comment"
  /\ scan.output = <<" "," ","/","/"," "," ","/","/"," ","c","{","{","k","}","}">> (* '  //  // c{{k}}' *)
  /\ rerender.text = scan.output

\* the lines of the template, before the substitution
TemplateLinesOf(t) == Split(t.input)

\* The mode the template puts line i in: that of the nearest marker line above
\* it (show after an end marker and above the first marker; for a begin
\* marker the entry of its name, comment when there is none)
ModeAt(t, i) ==
  LET lines == TemplateLinesOf(t)
      above == { j \in 1..(i - 1) : IsMarkerLine(lines[j]) }
  IN  IF above = {} THEN "show"
      ELSE LET j == CHOOSE m \in above : \A n \in above : n <= m
           IN  IF IsBeginLine(lines[j])
               THEN IF BeginName(lines[j]) \in DOMAIN t.sections
                    THEN t.sections[BeginName(lines[j])] ELSE "comment"
               ELSE "show"

\* line i lies between the begin marker of a section whose mode is hide and the
\* first end marker after it (or the end of the template)
InsideHiddenSection(t, i) ==
  LET lines == TemplateLinesOf(t)
  IN  \E j \in 1..(i - 1) :
        /\ IsBeginLine(lines[j])
        /\ BeginName(lines[j]) \in DOMAIN t.sections
        /\ t.sections[BeginName(lines[j])] = "hide"
        /\ \A m \in (j + 1)..(i - 1) : IsBeginLine(lines[m]) \/ ~IsEndLine(lines[m])

\* the loop is about to take line i of the template, which is no marker line
AtPlainLine ==
  /\ scan.pc = "loop" /\ scan.i <= Len(scan.lines)
  /\ NotMarkerLine(TemplateLinesOf(tpl)[scan.i])

\* the number of occurrences of pat in s, counted left to right without overlap
RECURSIVE Occurrences(_, _)
Occurrences(s, pat) ==
  IF Len(s) < Len(pat) THEN 0
  ELSE IF HasAt(s, pat, 1) THEN 1 + Occurrences(SliceFrom(s, Len(pat)), pat)
  ELSE Occurrences(Tail(s), pat)

Placeholder(key) == <<"{","{">> (* '{{' *) \o key \o <<"}","}">> (* '}}' *)

\* o is line l of the template after the substitution of the one entry e
SubstitutedLine(l, e, o) ==
  LET n == Occurrences(l, Placeholder(e.key))
  IN  /\ ~Includes(o, Placeholder(e.key))
      /\ Len(o) = Len(l) - n * Len(Placeholder(e.key)) + n * Len(e.value)
      /\ (n > 0) => Includes(o, e.value)
      /\ (n = 0) => (o = l)

InUnlistedSection(t, i) ==
  LET lines == TemplateLinesOf(t)
      above == { j \in 1..(i - 1) : IsMarkerLine(lines[j]) }
  IN  /\ above # {}
      /\ LET j == CHOOSE m \in above : \A n \in above : n <= m
         IN  IsBeginLine(lines[j]) /\ BeginName(lines[j]) \notin DOMAIN t.sections

\* C12: a line of a section whose name has no entry in the section table is
\* emitted, once, with the disabling prefix '// ' in it: it is neither dropped
\* nor emitted as it stands.
C12_UnlistedSectionIsCommented ==
  [][ (AtPlainLine /\ InUnlistedSection(tpl, scan.i)) =>
        ( /\ Len(scan'.result) = Len(scan.result) + 1
          /\ SubSeq(scan'.result, 1, Len(scan.result)) = scan.result
          /\ scan'.result[Len(scan'.result)] # scan.lines[scan.i]
          /\ InsertedOnce(scan.lines[scan.i], scan'.result[Len(scan'.result)]) ) ]_vars

\* C12 witness: the table has an entry for ff only, the template a section wk
C12_Witness ==
  /\ scan.pc = "done"
  /\ DOMAIN tpl.sections = { <<"f","f">> (* 'ff' *) }
  /\ tpl.input = Join(<< <<" "," ","/","/","-","-","b","e","g","i","n","-","w","k">> (* '  //--begin-wk' *), <<"a">>, <<" "," ","/","/","-","-","e","n","d","-","w","k">> (* '  //--end-wk' *) >>)
  /\ scan.output = <<"a","/","/"," ">> (* 'a// ' *)


\* C24: the substitution is a single pass: text that a value brings in is not
\* substituted again, so a value that holds {{otherKey}} for another key of
\* the table is in the output as it stands, wherever a shown line of the
\* template holds the placeholder of its key.
C24_ValueAppearsLiterally ==
  scan.pc = "done" =>
    \A i, j \in 1..Len(tpl.args) :
      ( /\ i # j
        /\ Includes(tpl.args[i].value, Placeholder(tpl.args[j].key))
        /\ \E l \in 1..Len(TemplateLinesOf(tpl)) :
              /\ NotMarkerLine(TemplateLinesOf(tpl)[l])
              /\ ModeAt(tpl, l) = "show"
              /\ Includes(TemplateLinesOf(tpl)[l], Placeholder(tpl.args[i].key)) )
      => Includes(scan.output, tpl.args[i].value)

\* The mode after the first i - 1 of the lines: show when there is no marker
\* line among them or the last one is an end marker, else the entry of the
\* last begin marker's name (comment when the table has none)
ModeBefore(lines, sections, i) ==
  LET above == { j \in 1..(i - 1) : IsMarkerLine(lines[j]) }
  IN  IF above = {} THEN "show"
      ELSE LET j == CHOOSE m \in above : \A n \in above : n <= m
           IN  IF ~IsBeginLine(lines[j]) THEN "show"
               ELSE IF BeginName(lines[j]) \in DOMAIN sections
               THEN sections[BeginName(lines[j])]
               ELSE "comment"

\* C25: one active mode and no stack: before every line, the mode of the loop
\* is show when no begin marker occurred since the start or the last end
\* marker, and else the table mode of the most recent begin marker (comment
\* when the table has no entry for it).
C25_ModeIsThatOfNearestMarker ==
  (scan.pc = "loop") => (scan.mode = ModeBefore(scan.lines, tpl.sections, scan.i))

\* C25 witness: a begin marker of a shown section follows that of a hidden
\* one with no end marker between them, and the line after it is emitted
C25_Witness ==
  /\ scan.pc = "done"
  /\ tpl.input = Join(<< <<"/","/","-","-","b","e","g","i","n","-","f","f">> (* '//--begin-ff' *), <<" "," ","/","/","-","-","b","e","g","i","n","-","w","k">> (* '  //--begin-wk' *), <<"a">> >>)
  /\ DOMAIN tpl.sections = SectionNames
  /\ tpl.sections[<<"f","f">> (* 'ff' *)] = "hide" /\ tpl.sections[<<"w","k">> (* 'wk' *)] = "show"
  /\ scan.mode = "show"
  /\ scan.output = <<"a">>

\* the indent recorded for line i: the white space before the '//--begin-' of
\* the nearest begin marker above it
IndentAt(t, i) ==
  LET lines == TemplateLinesOf(t)
      above == { j \in 1..(i - 1) : IsBeginLine(lines[j]) }
  IN  IF above = {} THEN <<>>
      ELSE BeginIndent(lines[CHOOSE m \in above : \A n \in above : n <= m])

\* C26: in comment mode every line of the section is emitted as the recorded
\* indent, then '// ', then the rest of the line, whatever the line's own
\* indentation or length.
C26_CommentedLineStartsWithIndent ==
  [][ (AtPlainLine /\ ModeAt(tpl, scan.i) = "comment") =>
        ( /\ Len(scan'.result) = Len(scan.result) + 1
          /\ \E k \in 0..Len(scan.lines[scan.i]) :
                scan'.result[Len(scan'.result)] =
                  IndentAt(tpl, scan.i) \o <<"/","/"," ">> (* '// ' *) \o SliceFrom(scan.lines[scan.i], k) ) ]_vars
-----------------------------------------------------------------------------
(* Claims about a run of the program, checked under Spec.                   *)

\* the commands executed so far are the first commands of the list, in order
ExecutedInOrder ==
  /\ Len(run.executed) <= Len(run.commands)
  /\ \A i \in 1..Len(run.executed) : run.executed[i] = run.commands[i].command

\* no file of rootDir has been written by the run
NothingWritten ==
  /\ run.written = <<>>
  /\ \A p \in DOMAIN run.disk : run.disk[p] = PriorContent
  /\ run.gitignore = run.gitignoreBefore
  /\ run.pkg.testCt = <<>>

\* C5: commands run one at a time in list order, and when one of them exits
\* non-zero (or throws) the run aborts there: no later command is executed, no
\* generated file is written, .gitignore and package.json are not patched, and
\* the process exits with code 1.
C5_FailingCommandAborts ==
  /\ ExecutedInOrder
  /\ (run.pc = "exec") => (Len(run.executed) = run.ci - 1)
  /\ (run.cause = "command") =>
       ( /\ run.pc = "exited"
         /\ run.exitCode = 1
         /\ run.stderr # <<>>
         /\ Len(run.executed) = run.ci
         /\ NothingWritten )

\* C5 witness: the project was initialized, the installation failed; the
\* download of the browsers never ran and the files of the map were not written
C5_Witness ==
  /\ run.pc = "exited" /\ run.cause = "command" /\ run.exitCode = 1
  /\ Len(run.commands) = 3
  /\ run.executed = << <<"n","p","m"," ","i","n","i","t"," ","-","y">> (* 'npm init -y' *), <<"n","p","m"," ","i","n","s","t","a","l","l"," ","-","-","s","a","v","e","-","d","e","v"," ","@","p","l","a","y","w","r","i","g","h","t","/","t","e","s","t">> (* 'npm install --save-dev @playwright/test' *) >>
  /\ run.files # <<>>
  /\ run.written = <<>>
  /\ ~run.gitignore.exists

\* the last prompt of r is the override prompt for path, answered with answer
LastPromptIs(r, path, answer) ==
  /\ r.prompts # <<>>
  /\ r.prompts[Len(r.prompts)] = [ kind |-> "override", name |-> path, answer |-> answer ]

\* C6: createFiles writes over a file that exists only if force is set or the
\* user answered yes to the prompt; when the user declines, the file keeps its
\* content, nothing is raised and the loop goes on with the next file, so that
\* at the end every file of the map is either declined or written.
C6_OverwriteOnlyIfForcedOrConfirmed ==
  /\ [][ (run.pc = "create" /\ run.fi <= Len(run.files)) =>
           LET f == run.files[run.fi]
           IN  /\ (f.path \in DOMAIN run.disk /\ run'.written # run.written) =>
                    ( /\ Len(run'.prompts) = Len(run.prompts) + 1
                      /\ LastPromptIs(run', f.path, TRUE) )
               /\ (f.path \in run'.declined) =>
                    ( /\ LastPromptIs(run', f.path, FALSE)
                      /\ run'.disk = run.disk
                      /\ run'.written = run.written
                      /\ run'.stderr = run.stderr
                      /\ run'.pc = "create"
                      /\ run'.fi = run.fi + 1 ) ]_vars
  /\ [][ (run.pc = "packageJSON" /\ run.pkg.status = "ok") =>
           ( /\ run'.prompts = run.prompts
             /\ run'.written = Append(run.written, <<"p","a","c","k","a","g","e",".","j","s","o","n">> (* 'package.json' *)) ) ]_vars
  /\ [](run.pc = "packageJSON" =>
          \A i \in 1..Len(run.files) :
            LET f == run.files[i]
            IN  IF f.path \in run.declined
                THEN run.disk[f.path] = PriorContent
                ELSE f.path \in DOMAIN run.disk /\ run.disk[f.path] = f.value)

\* C6 witness: the user kept playwright.config.ts and replaced the example
\* test; the file after the declined one was written, and so was package.json
C6_Witness ==
  /\ run.pc = "exited" /\ run.exitCode = 0
  /\ run.declined = { <<"p","l","a","y","w","r","i","g","h","t",".","c","o","n","f","i","g",".","t","s">> (* 'playwright.config.ts' *) }
  /\ run.disk[<<"p","l","a","y","w","r","i","g","h","t",".","c","o","n","f","i","g",".","t","s">> (* 'playwright.config.ts' *)] = PriorContent
  /\ \E i \in 1..Len(run.prompts) :
       run.prompts[i] = [ kind |-> "override", name |-> <<"t","e","s","t","s","/","e","x","a","m","p","l","e",".","s","p","e","c",".","t","s">> (* 'tests/example.spec.ts' *), answer |-> TRUE ]
  /\ run.disk[<<"t","e","s","t","s","/","e","x","a","m","p","l","e",".","s","p","e","c",".","t","s">> (* 'tests/example.spec.ts' *)].kind = "generated"
  /\ run.written[Len(run.written)] = <<"p","a","c","k","a","g","e",".","j","s","o","n">> (* 'package.json' *)

\* C7 as stated: a run in which the user declined an override ends with code 1
C7_Original ==
  (run.pc = "exited" /\ run.declined # {}) => run.exitCode = 1

\* C7: when the user declines to override an existing file, the file is skipped
\* and the run goes on; the decline is not a failure.  The run ends with code 0
\* unless _patchPackageJSON then throws on a package.json that is missing or is
\* not JSON.
C7_DeclineIsNotAFailure ==
  (run.declined # {}) =>
    ( /\ run.cause \in {"none", "packageJSON"}
      /\ (run.pc = "exited") =>
           ( /\ (run.exitCode = 1) <=> (run.cause = "packageJSON")
             /\ (run.cause = "packageJSON") <=> (run.pkg.status # "ok") ) )

\* C7 witness: the user declined, and the run ended with code 0
C7_Witness ==
  /\ run.pc = "exited"
  /\ run.declined = { <<"p","l","a","y","w","r","i","g","h","t",".","c","o","n","f","i","g",".","t","s">> (* 'playwright.config.ts' *) }
  /\ run.exitCode = 0
  /\ run.stderr = <<>>
  /\ run.stdout[Len(run.stdout)] = "epilogue"

\* the command line holds --name or --name=value
Supplied(argv, name) ==
  \E i \in 1..Len(argv) :
    \/ argv[i] = <<"-","-">> (* '--' *) \o name
    \/ StartsWith(argv[i], <<"-","-">> (* '--' *) \o name \o <<"=">>)

\* the command line holds a boolean option of allOptions and its --no- counterpart
ConflictSupplied(argv) ==
  \E o \in SeqToSet(allOptions) :
    /\ StartsWith(o, <<"-","-","n","o","-">> (* '--no-' *))
    /\ <<"-","-">> (* '--' *) \o SliceFrom(o, 5) \in SeqToSet(allOptions)
    /\ Supplied(argv, SliceFrom(o, 2))
    /\ Supplied(argv, SliceFrom(o, 5))

\* the process has done nothing but parse and exit
NoSideEffect ==
  /\ run.pc \in {"main", "exited"}
  /\ ~run.constructed
  /\ run.executed = <<>>
  /\ run.written = <<>>
  /\ run.prompts = <<>>

InitCommands == { <<"n","p","m"," ","i","n","i","t"," ","-","y">> (* 'npm init -y' *), <<"p","n","p","m"," ","i","n","i","t">> (* 'pnpm init' *), <<"y","a","r","n"," ","i","n","i","t"," ","-","y">> (* 'yarn init -y' *) }

InitCommandOf(packageManager) ==
  CASE packageManager = "npm"  -> <<"n","p","m"," ","i","n","i","t"," ","-","y">> (* 'npm init -y' *)
    [] packageManager = "pnpm" -> <<"p","n","p","m"," ","i","n","i","t">> (* 'pnpm init' *)
    [] packageManager = "yarn" -> <<"y","a","r","n"," ","i","n","i","t"," ","-","y">> (* 'yarn init -y' *)

\* C13: when _identifyChanges finds no package.json in rootDir, the first
\* command of the list is the init command of the package manager and no other
\* command is an init command; when package.json exists (valid or not), the
\* list holds no init command.
C13_InitCommandFirstIffNoPackageJSON ==
  [][ (run.pc = "identify") =>
        LET cmds == run'.commands
        IN  /\ cmds # <<>>
            /\ IF run.pkg.status = "missing"
               THEN /\ cmds[1].command = InitCommandOf(run.packageManager)
                    /\ \A i \in 2..Len(cmds) : cmds[i].command \notin InitCommands
               ELSE \A i \in 1..Len(cmds) : cmds[i].command \notin InitCommands ]_vars

\* C13 witness: pnpm (by its lock file), no package.json
C13_Witness ==
  /\ run.pc = "exec" /\ run.ci = 1
  /\ run.packageManager = "pnpm"
  /\ run.pkg.status = "missing"
  /\ run.commands[1].command = <<"p","n","p","m"," ","i","n","i","t">> (* 'pnpm init' *)
  /\ Len(run.commands) = 3

\* the entries _patchGitIgnore is to add
GitIgnoreEntries ==
  { <<"n","o","d","e","_","m","o","d","u","l","e","s","/">> (* 'node_modules/' *), <<"/","t","e","s","t","-","r","e","s","u","l","t","s","/">> (* '/test-results/' *), <<"/","p","l","a","y","w","r","i","g","h","t","-","r","e","p","o","r","t","/">> (* '/playwright-report/' *), <<"/","p","l","a","y","w","r","i","g","h","t","/",".","c","a","c","h","e","/">> (* '/playwright/.cache/' *) }

\* _patchGitIgnore is about to run
AtPatchGitIgnore == run.pc = "create" /\ run.fi > Len(run.files)

\* C14: _patchGitIgnore adds an entry only if it is not in the file: a
\* .gitignore that holds the four entries keeps its content (up to the white
\* space at its end), and no entry occurs more often after the patch than
\* before, or than once.
C14_GitIgnoreNotDuplicated ==
  [][ AtPatchGitIgnore =>
        ( /\ (\A e \in GitIgnoreEntries : Includes(run.gitignore.text, e)) =>
               (TrimEnd(run'.gitignore.text) = TrimEnd(run.gitignore.text))
          /\ \A e \in GitIgnoreEntries :
               \/ Occurrences(run'.gitignore.text, e) <= 1
               \/ Occurrences(run'.gitignore.text, e) <= Occurrences(run.gitignore.text, e) ) ]_vars

\* the run is non-interactive: --quiet on the command line, or TEST_OPTIONS set
NonInteractive == Supplied(run.argv, <<"q","u","i","e","t">> (* 'quiet' *)) \/ run.testOptions.set

\* C15: in non-interactive mode (--quiet, or TEST_OPTIONS) a run shows no
\* prompt at any step, whatever rootDir holds at the start.
C15_NoPromptWhenNonInteractive ==
  NonInteractive => run.prompts = <<>>

\* the path of the generated workflow
WorkflowPath == <<".","g","i","t","h","u","b","/","w","o","r","k","f","l","o","w","s","/","p","l","a","y","w","r","i","g","h","t",".","y","m","l">> (* '.github/workflows/playwright.yml' *)

\* the value of key in a substitution table that has it
ArgValue(args, key) ==
  LET i == CHOOSE j \in 1..Len(args) : args[j].key = key
  IN  args[i].value

\* the file map holds the workflow at index i
IsWorkflow(i) == i \in 1..Len(run.files) /\ run.files[i].path = WorkflowPath

\* C16: with npm and the GitHub Actions workflow enabled, the install step of
\* the generated workflow is 'npm ci' when package-lock is enabled and 'npm i'
\* when rootDir/.npmrc sets package-lock=false.
C16_NpmInstallStepFollowsPackageLock ==
  \A i \in 1..Len(run.files) :
    (IsWorkflow(i) /\ run.packageManager = "npm") =>
      ArgValue(run.files[i].value.args, <<"i","n","s","t","a","l","l","D","e","p","s","C","o","m","m","a","n","d">> (* 'installDepsCommand' *))
        = (IF run.agent.npmrcNoPackageLock THEN <<"n","p","m"," ","i">> (* 'npm i' *) ELSE <<"n","p","m"," ","c","i">> (* 'npm ci' *))

\* C17: when a component-testing framework is chosen and the GitHub Actions
\* workflow is enabled, the run-tests command of the generated workflow
\* invokes the test-ct script.
C17_WorkflowRunsTestCt ==
  \A i \in 1..Len(run.files) :
    (IsWorkflow(i) /\ run.answers.framework # <<>>) =>
      Includes(ArgValue(run.files[i].value.args, <<"r","u","n","T","e","s","t","s","C","o","m","m","a","n","d">> (* 'runTestsCommand' *)), <<"t","e","s","t","-","c","t">> (* 'test-ct' *))

\* C18: with --no-browsers the command list holds no 'playwright install'
\* command, and with --no-examples the file map holds no example test.
C18_NegativeFlagsHonoured ==
  (run.commands # <<>>) =>
    /\ Supplied(run.argv, <<"n","o","-","b","r","o","w","s","e","r","s">> (* 'no-browsers' *)) =>
         (\A i \in 1..Len(run.commands) :
            ~Includes(run.commands[i].command, <<"p","l","a","y","w","r","i","g","h","t"," ","i","n","s","t","a","l","l">> (* 'playwright install' *)))
    /\ Supplied(run.argv, <<"n","o","-","e","x","a","m","p","l","e","s">> (* 'no-examples' *)) =>
         (\A i \in 1..Len(run.files) :
            /\ ~Includes(run.files[i].path, <<"e","x","a","m","p","l","e",".","s","p","e","c",".">> (* 'example.spec.' *))
            /\ ~StartsWith(run.files[i].path, <<"t","e","s","t","s","-","e","x","a","m","p","l","e","s","/">> (* 'tests-examples/' *)))

\* the run ended after the epilogue
Succeeded == run.pc = "exited" /\ run.exitCode = 0 /\ run.cause = "none"

Identified == run.commands # <<>>

\* the paths of the file map
FilePaths == { run.files[i].path : i \in 1..Len(run.files) }

\* the extension the answers ask for
ExtOf(answers) == IF answers.language = "JavaScript" THEN <<"j","s">> (* 'js' *) ELSE <<"t","s">> (* 'ts' *)

\* C23: the file map follows from the answers: it holds exactly one
\* configuration file, playwright-ct.config.<ext> when a component-testing
\* framework is chosen and playwright.config.<ext> otherwise, with <ext> js for
\* JavaScript and ts for TypeScript; an example test of the map is
\* <testDir>/example.spec.<ext> (there is one when no framework is chosen); and
\* .github/workflows/playwright.yml is in the map exactly when the GitHub
\* Actions answer is yes.
C23_FileSetFollowsAnswers ==
  Identified =>
    LET ext == ExtOf(run.answers)
        config == IF run.answers.framework # <<>>
                  THEN <<"p","l","a","y","w","r","i","g","h","t","-","c","t",".","c","o","n","f","i","g",".">> (* 'playwright-ct.config.' *) \o ext
                  ELSE <<"p","l","a","y","w","r","i","g","h","t",".","c","o","n","f","i","g",".">> (* 'playwright.config.' *) \o ext
        example == run.answers.testDir \o <<"/","e","x","a","m","p","l","e",".","s","p","e","c",".">> (* '/example.spec.' *) \o ext
    IN  /\ { p \in FilePaths : Includes(p, <<".","c","o","n","f","i","g",".">> (* '.config.' *)) } = { config }
        /\ \A p \in FilePaths :
             (Includes(p, <<"e","x","a","m","p","l","e",".","s","p","e","c",".">> (* 'example.spec.' *)) /\ ~StartsWith(p, <<"t","e","s","t","s","-","e","x","a","m","p","l","e","s","/">> (* 'tests-examples/' *))) => (p = example)
        /\ (run.answers.framework = <<>>) => (example \in FilePaths)
        /\ (WorkflowPath \in FilePaths) <=> run.answers.installGitHubActions

\* C23 witness: the user chose JavaScript, the directory e2e and no workflow
C23_Witness ==
  /\ Identified
  /\ run.prompts # <<>>
  /\ run.answers.language = "JavaScript" /\ run.answers.testDir = <<"e","2","e">> (* 'e2e' *)
  /\ ~run.answers.installGitHubActions
  /\ FilePaths = { <<"p","l","a","y","w","r","i","g","h","t",".","c","o","n","f","i","g",".","j","s">> (* 'playwright.config.js' *), <<"e","2","e","/","e","x","a","m","p","l","e",".","s","p","e","c",".","j","s">> (* 'e2e/example.spec.js' *),
                   <<"t","e","s","t","s","-","e","x","a","m","p","l","e","s","/","d","e","m","o","-","t","o","d","o","-","a","p","p",".","s","p","e","c",".","j","s">> (* 'tests-examples/demo-todo-app.spec.js' *) }

NotDeclined(p) == p \notin run.declined

\* the paths of the first k files of the map that the user did not decline
FilesWritten(k) == SelectSeq([ i \in 1..k |-> run.files[i].path ], NotDeclined)

InstallPrefixOf(packageManager) ==
  CASE packageManager = "npm"  -> <<"n","p","m"," ","i","n","s","t","a","l","l"," ","-","-","s","a","v","e","-","d","e","v"," ">> (* 'npm install --save-dev ' *)
    [] packageManager = "pnpm" -> <<"p","n","p","m"," ","a","d","d"," ","-","-","s","a","v","e","-","d","e","v"," ">> (* 'pnpm add --save-dev ' *)
    [] packageManager = "yarn" -> <<"y","a","r","n"," ","a","d","d"," ","-","-","d","e","v"," ">> (* 'yarn add --dev ' *)

InstallPrefixes == { InstallPrefixOf(p) : p \in {"npm", "pnpm", "yarn"} }

IsInstallCommand(c) == \E p \in InstallPrefixes : StartsWith(c.command, p)

C29_ComponentTestingOutputsAgree ==
  Succeeded =>
    LET ext == ExtOf(run.answers)
        ctInstall == { i \in 1..Len(run.commands) :
                         run.commands[i].name = <<"I","n","s","t","a","l","l","i","n","g"," ","P","l","a","y","w","r","i","g","h","t"," ","C","o","m","p","o","n","e","n","t"," ","T","e","s","t","i","n","g">> (* 'Installing Playwright Component Testing' *) }
        ctConfig == (<<"p","l","a","y","w","r","i","g","h","t","-","c","t",".","c","o","n","f","i","g",".">> (* 'playwright-ct.config.' *) \o ext) \in FilePaths
        scaffold == /\ <<"p","l","a","y","w","r","i","g","h","t","/","i","n","d","e","x",".","h","t","m","l">> (* 'playwright/index.html' *) \in FilePaths
                    /\ (<<"p","l","a","y","w","r","i","g","h","t","/","i","n","d","e","x",".">> (* 'playwright/index.' *) \o ext) \in FilePaths
        testCt == run.pkg.testCt # <<>>
    IN  /\ (ctInstall # {}) <=> (ctConfig /\ scaffold /\ testCt)
        /\ \A i \in ctInstall :
             /\ run.answers.framework # <<>>
             /\ Includes(run.commands[i].command,
                         <<"@","p","l","a","y","w","r","i","g","h","t","/","e","x","p","e","r","i","m","e","n","t","a","l","-","c","t","-">> (* '@playwright/experimental-ct-' *) \o run.answers.framework)

\* the commands that download the browsers
IsDownloadCommand(c) == StartsWith(c.command, <<"n","p","x"," ","p","l","a","y","w","r","i","g","h","t"," ","i","n","s","t","a","l","l">> (* 'npx playwright install' *))

-----------------------------------------------------------------------------
(* Specifications.                                                          *)

PMNext ==
  \/ Determine
  \/ DetermineBun
  \/ DetermineUtils
  \/ CallCi
  \/ CallI
  \/ CallInstallDevDependency

SpecPM == PMInit /\ [][PMNext]_vars

TplNext ==
  \/ TplReplace
  \/ TplLine
  \/ TplReturn
  \/ TplRerender

SpecTpl == TplInit /\ [][TplNext]_vars

Next ==
  \/ Main
  \/ Construct
  \/ AskQuestions
  \/ IdentifyChanges
  \/ ExecuteCommand
  \/ CreateFile
  \/ PatchGitIgnore
  \/ PatchPackageJSON

Spec == RunInit /\ [][Next]_vars

=============================================================================
